---- MODULE Spec2Model ----
(***************************************************************************)
(* Model of the stage / state-machine engine of Auto-Book-Management:      *)
(*   - the Task Scheduler        (src/core/task_scheduler.py)              *)
(*   - the shared execution wrapper BaseStage.execute and the Pipeline     *)
(*     Manager                   (src/core/pipeline.py)                    *)
(*   - the four stages           (src/stages/*.py)                         *)
(*   - the handlers that join them (src/main.py)                           *)
(* core/state_manager.py and core/error_handler.py are not part of the     *)
(* available source; the operators that stand for them are marked as       *)
(* modelled from the specification.                                        *)
(***************************************************************************)
EXTENDS Integers, Sequences, FiniteSets, TLC

(***************************************************************************)
(* Bounds of the model.                                                    *)
(***************************************************************************)
MaxTasks == 2
MaxRetries == 1
MaxNow == 40
NumBooks == 2
MaxConcurrentTasks == 1
MaxHeap == 4
MaxFailures == 7
MaxExec == 2
MaxWorkers == 2
MaxSessions == 2
MaxRows == 2
MaxSubmit == 3
MaxAge == 3
MaxStrategies == 2

TaskIds == 1..MaxTasks
Books == 1..NumBooks
HeapIds == 1..MaxHeap
WorkerIds == 1..MaxExec
SessionIds == 1..MaxSessions
PoolIds == 1..MaxSubmit

(***************************************************************************)
(* BookStatus values used by the pipeline and the per-stage tables.        *)
(***************************************************************************)
Stages == {"data_collection", "search", "download", "upload"}

BookStatuses ==
    {"NEW", "DETAIL_FETCHING", "DETAIL_COMPLETE",
     "SEARCH_QUEUED", "SEARCH_ACTIVE", "SEARCH_COMPLETE", "SEARCH_NO_RESULTS",
     "SKIPPED_EXISTS",
     "DOWNLOAD_QUEUED", "DOWNLOAD_ACTIVE", "DOWNLOAD_COMPLETE", "DOWNLOAD_FAILED",
     "UPLOAD_QUEUED", "UPLOAD_ACTIVE", "UPLOAD_COMPLETE", "UPLOAD_FAILED",
     "COMPLETED", "FAILED_PERMANENT"}

\* BaseStage._get_active_status
ActiveStatus(stage) ==
    CASE stage = "data_collection" -> "DETAIL_FETCHING"
      [] stage = "search"          -> "SEARCH_ACTIVE"
      [] stage = "download"        -> "DOWNLOAD_ACTIVE"
      [] stage = "upload"          -> "UPLOAD_ACTIVE"

\* _get_retry_status giving the active sub-status
RetryStatusActive(stage) == ActiveStatus(stage)

\* BaseStage._get_retry_status
RetryStatus(stage) ==
    CASE stage = "data_collection" -> "NEW"
      [] stage = "search"          -> "SEARCH_QUEUED"
      [] stage = "download"        -> "DOWNLOAD_QUEUED"
      [] stage = "upload"          -> "UPLOAD_QUEUED"

\* TaskScheduler._can_schedule_for_stage: stage_acceptable_statuses
SchedulableStatuses(stage) ==
    CASE stage = "data_collection" -> {"NEW", "DETAIL_FETCHING"}
      [] stage = "search"          -> {"DETAIL_COMPLETE", "SEARCH_QUEUED", "SEARCH_ACTIVE"}
      [] stage = "download"        -> {"DOWNLOAD_QUEUED", "DOWNLOAD_ACTIVE"}
      [] stage = "upload"          -> {"DOWNLOAD_COMPLETE", "UPLOAD_QUEUED", "UPLOAD_ACTIVE"}

(***************************************************************************)
(* can_process of the four stages.  local is the status held by the book   *)
(* object handed to the stage (refreshed by execute), live is the status   *)
(* in the database at the time of the call, hasItem says whether the       *)
(* download queue holds a queued entry for the book.  data_collection and  *)
(* search test the object; download and upload re-query the database.      *)
(***************************************************************************)
CanProcess(stage, local, live, hasItem) ==
    CASE stage = "data_collection" -> local = "NEW"
      [] stage = "search"          -> local \in {"DETAIL_COMPLETE", "SEARCH_QUEUED"}
      [] stage = "download"        -> live = "DOWNLOAD_QUEUED" /\ hasItem
      [] stage = "upload"          ->
            live \in {"DOWNLOAD_COMPLETE", "UPLOAD_QUEUED", "UPLOAD_ACTIVE"}

(***************************************************************************)
(* Outcomes of a stage's process():                                        *)
(*   ok        returns True                                                *)
(*   exists    search: True with _calibre_exists set                       *)
(*   noqual    search: True with no candidate above the score floor        *)
(*   reset     search: connection reset, process itself writes             *)
(*             SEARCH_QUEUED and returns False                             *)
(*   network   raises NetworkError            (retryable)                  *)
(*   system    raises ProcessingError         (retryable by default)       *)
(*   auth      raises AuthError               (not retryable)              *)
(*   not_found raises ResourceNotFoundError   (not retryable)              *)
(*   quota     raises DownloadLimitExhaustedError                          *)
(*   crash     raises an exception that is no ProcessingError              *)
(*   final     raises a ProcessingError of another type with               *)
(*             retryable=False (data_collection "data_missing", upload)    *)
(***************************************************************************)
ProcessOutcomes(stage) ==
    {"ok", "network", "system", "auth", "not_found", "quota", "crash"}
      \cup (IF stage = "search" THEN {"exists", "noqual", "reset"} ELSE {})
      \cup (IF stage \in {"data_collection", "upload"} THEN {"final"} ELSE {})

\* ProcessingError.retryable: every error is taken as retryable
ErrorRetryableAlways(outcome) == TRUE

\* ProcessingError.retryable of the exception classes
ErrorRetryable(outcome) == outcome \in {"network", "system"}

\* get_next_status(success) of the four stages; outcome carries the flags
\* the search stage keeps between process and get_next_status.
NextStatus(stage, success, outcome) ==
    CASE stage = "data_collection" ->
            IF success THEN "DETAIL_COMPLETE" ELSE "FAILED_PERMANENT"
      [] stage = "search" ->
            IF success
            THEN IF outcome = "exists" THEN "SKIPPED_EXISTS"
                 ELSE IF outcome = "ok" THEN "SEARCH_COMPLETE"
                 ELSE "SEARCH_NO_RESULTS"
            ELSE "SEARCH_NO_RESULTS"
      [] stage = "download" ->
            IF success THEN "DOWNLOAD_COMPLETE" ELSE "DOWNLOAD_FAILED"
      [] stage = "upload" ->
            IF success THEN "UPLOAD_COMPLETE" ELSE "UPLOAD_FAILED"


(***************************************************************************)
(* State.                                                                  *)
(***************************************************************************)
VARIABLES
    now,            \* the wall clock, in seconds
    bookStatus,     \* DoubanBook.status of every book (the database)
    dlQueue,        \* status of the book's DownloadQueue entry, or "none"
    history,        \* BookStatusHistory rows of every book: <<old_status, new_status,
                    \* error_message, retry_count>>
    tasks,          \* the ScheduledTask objects, by task id (shared by reference)
    dbTask,         \* ProcessingTask.status, the durable task status, or "none"
    task_queue,     \* TaskScheduler._task_queue, a heapq array of task ids
    active_tasks,   \* TaskScheduler._active_tasks, the keys of the map
    running,        \* TaskScheduler._running
    stop_event,     \* TaskScheduler._stop_event
    loop,           \* the scheduler loop thread: position and local variables
    threads,        \* handler threads: <<task id, position>>
    task_handlers,  \* TaskScheduler._task_handlers, the registered stage names
    total_scheduled, \* TaskScheduler._stats['total_scheduled']
    stopping,       \* whether a call of stop() is waiting for the loop thread
    ev,             \* the handler run performed last, if the last step was one
    popped,         \* the task ids popped from the heap since the last push
    ftask,          \* the ScheduledTask given to _handle_task_failure
    flast,          \* the last call of _handle_task_failure and what it did
    workers,        \* executions of BaseStage.execute: position and local variables
    paused_stages,  \* PipelineManager._paused_stages: the reason by stage, or "none"
    pipe_active,    \* PipelineManager._active_tasks: the future by book id, or 0
    pev,            \* the last step, if it was a submitting tick, a quota signal
                    \* or a resume_stage
    sessions,       \* the units of work (session_scope) of the Database's status
                    \* updates that are open: position, arguments, what was read
    manager,        \* PipelineManager: _running, _stop_event, the stages whose
                    \* _stop_event is set, and whether the executor is shut down
    locks,          \* TaskScheduler._queue_lock and _active_lock: the holder
    lockers,        \* the threads that use the two locks: the operation each is
                    \* in and the lock operations it has still to do
    search_flags,   \* SearchStage._found_qualifying_results and _calibre_exists,
                    \* fields of the one SearchStage instance
    sweep           \* the minutes since each book's row was last updated, and the
                    \* argument and the result of the last reset_stuck_tasks

schedVars == <<now, tasks, dbTask, task_queue, active_tasks, running, stop_event,
               loop, threads, task_handlers, total_scheduled, stopping, ev>>
bookVars == <<bookStatus, dlQueue, history>>
pipeVars == <<workers, paused_stages, pipe_active, pev>>
failVars == <<ftask, flast>>
dbVars == <<sessions>>
mgrVars == <<manager>>
lockVars == <<locks, lockers>>
stageVars == <<search_flags, sweep>>

\* what the scheduler loop, its handler threads and its operations do not touch
nonSched == <<bookVars, pipeVars, failVars, dbVars, mgrVars, lockVars, stageVars, popped>>

vars == <<schedVars, bookVars, pipeVars, failVars, dbVars, mgrVars, lockVars, stageVars,
         popped>>

(***************************************************************************)
(* ScheduledTask and its ordering.                                         *)
(***************************************************************************)
NoTask ==
    [book_id |-> 0, stage |-> "none", priority |-> 0, created_at |-> 0,
     retry_count |-> 0, max_retries |-> 0, next_run_time |-> 0]

\* TaskPriority: LOW, NORMAL, HIGH, URGENT
Priorities == {1, 5, 10, 20}

\* __lt__ with the lower priority value first
TaskLtLowFirst(a, b) ==
    IF a.next_run_time # b.next_run_time THEN a.next_run_time < b.next_run_time
    ELSE IF a.priority # b.priority THEN a.priority < b.priority
    ELSE a.created_at < b.created_at

\* __lt__ with the priority compared before next_run_time
TaskLtPriorityFirst(a, b) ==
    IF a.priority # b.priority THEN a.priority > b.priority
    ELSE IF a.next_run_time # b.next_run_time THEN a.next_run_time < b.next_run_time
    ELSE a.created_at < b.created_at

\* ScheduledTask.__lt__
TaskLt(a, b) ==
    IF a.next_run_time # b.next_run_time THEN a.next_run_time < b.next_run_time
    ELSE IF a.priority # b.priority THEN a.priority > b.priority
    ELSE a.created_at < b.created_at

(***************************************************************************)
(* heapq on a Python list, as the scheduler uses it.  T maps task ids to   *)
(* their ScheduledTask; h is the list (0-based positions p live at h[p+1]).*)
(***************************************************************************)
RECURSIVE SiftDown(_, _, _, _, _)
SiftDown(T, h, startpos, pos, newitem) ==
    IF pos > startpos
    THEN LET parentpos == (pos - 1) \div 2
             parent == h[parentpos + 1]
         IN  IF TaskLt(T[newitem], T[parent])
             THEN SiftDown(T, [h EXCEPT ![pos + 1] = parent], startpos, parentpos, newitem)
             ELSE [h EXCEPT ![pos + 1] = newitem]
    ELSE [h EXCEPT ![pos + 1] = newitem]

RECURSIVE SiftUpLoop(_, _, _, _)
SiftUpLoop(T, h, pos, newitem) ==
    LET childpos == 2 * pos + 1
        rightpos == childpos + 1
    IN  IF childpos < Len(h)
        THEN LET c == IF rightpos < Len(h)
                         /\ ~TaskLt(T[h[childpos + 1]], T[h[rightpos + 1]])
                      THEN rightpos ELSE childpos
             IN  SiftUpLoop(T, [h EXCEPT ![pos + 1] = h[c + 1]], c, newitem)
        ELSE <<[h EXCEPT ![pos + 1] = newitem], pos>>

SiftUp(T, h, pos) ==
    LET r == SiftUpLoop(T, h, pos, h[pos + 1])
    IN  SiftDown(T, r[1], pos, r[2], h[pos + 1])

\* heapq.heappush(self._task_queue, task)
HeapPush(T, h, x) == SiftDown(T, Append(h, x), 0, Len(h), x)

\* heapq.heappop(self._task_queue): <<the item returned, the list left>>
HeapPop(T, h) ==
    LET lastelt == h[Len(h)]
        rest == SubSeq(h, 1, Len(h) - 1)
    IN  IF rest # <<>>
        THEN <<rest[1], SiftUp(T, [rest EXCEPT ![1] = lastelt], 0)>>
        ELSE <<lastelt, rest>>

RECURSIVE HeapifyFrom(_, _, _)
HeapifyFrom(T, h, i) ==
    IF i < 0 THEN h ELSE HeapifyFrom(T, SiftUp(T, h, i), i - 1)

\* heapq.heapify(self._task_queue)
Heapify(T, h) == HeapifyFrom(T, h, (Len(h) \div 2) - 1)

RECURSIVE PushAll(_, _, _)
PushAll(T, h, xs) ==
    IF xs = <<>> THEN h ELSE PushAll(T, HeapPush(T, h, Head(xs)), Tail(xs))

Range(s) == {s[i] : i \in 1..Len(s)}


Min(a, b) == IF a < b THEN a ELSE b

(***************************************************************************)
(* BaseStage.execute run from start to end on one book, with no other      *)
(* writer of that book in between: the live status and queue entry it      *)
(* finds, the outcome process() has if it is invoked.                      *)
(*   result  "true" / "false": the value returned; "raise": the            *)
(*           DownloadLimitExhaustedError is re-raised to the caller        *)
(*   status  the book's status when execute ends                           *)
(*   queue   the book's download-queue entry when execute ends             *)
(*   invoked whether process() was called                                  *)
(***************************************************************************)
\* SearchStage._add_best_match_to_queue / DownloadStage.process on the queue entry
QueueAfter(stage, outcome, queue) ==
    CASE stage = "search" /\ outcome = "ok" ->
            IF queue = "none" THEN "queued" ELSE queue
      [] stage = "download" /\ outcome = "ok" ->
            IF queue \in {"queued", "downloading"} THEN "completed" ELSE queue
      [] stage = "download" /\ outcome \in {"network", "system", "not_found"} ->
            IF queue \in {"queued", "downloading"} THEN "failed" ELSE queue
      [] OTHER -> queue

Execute(stage, live, queue, outcome) ==
    IF ~CanProcess(stage, live, live, queue = "queued")
    THEN \* ProcessingError("status_mismatch", retryable=False), caught below
         [result |-> "false", status |-> "FAILED_PERMANENT", queue |-> queue,
          invoked |-> FALSE]
    ELSE CASE outcome \in {"ok", "exists", "noqual"} ->
                [result |-> "true", status |-> NextStatus(stage, TRUE, outcome),
                 queue |-> QueueAfter(stage, outcome, queue), invoked |-> TRUE]
           [] outcome = "reset" ->
                [result |-> "false", status |-> NextStatus(stage, FALSE, outcome),
                 queue |-> queue, invoked |-> TRUE]
           [] outcome = "quota" ->
                [result |-> "raise", status |-> ActiveStatus(stage),
                 queue |-> queue, invoked |-> TRUE]
           [] outcome = "crash" ->
                [result |-> "false", status |-> "FAILED_PERMANENT",
                 queue |-> queue, invoked |-> TRUE]
           [] OTHER ->
                [result |-> "false",
                 status |-> IF ErrorRetryable(outcome) THEN RetryStatus(stage)
                            ELSE "FAILED_PERMANENT",
                 queue |-> QueueAfter(stage, outcome, queue), invoked |-> TRUE]

(***************************************************************************)
(* TaskScheduler._handle_task_failure.                                     *)
(* err: exc      whether an exception object is passed                     *)
(*      category the category ErrorClassifier gives the exception          *)
(*      msg      what the error message contains: sm "status_mismatch",    *)
(*               zt the word for status, qn one of the *_QUEUED names      *)
(***************************************************************************)
NoMsg == [sm |-> FALSE, zt |-> FALSE, qn |-> FALSE]
NoError == [exc |-> FALSE, category |-> "system", msg |-> NoMsg]

\* ErrorClassifier.classify_error(...).retryable
ClassifyRetryable(category) ==
    category \in {"network", "system", "status_mismatch"}

IsStatusMismatch(msg) == msg.sm \/ (msg.zt /\ msg.qn)

\* delay_seconds without the cap of five minutes
RetryDelayNoCap(n, mismatch) ==
    IF mismatch /\ n <= 2 THEN 5 + (n * 5)
    ELSE 30 * (2 ^ (n - 1))

\* delay_seconds
RetryDelay(n, mismatch) ==
    IF mismatch /\ n <= 2 THEN 5 + (n * 5)
    ELSE Min(300, 30 * (2 ^ (n - 1)))

\* _handle_task_failure with retry_count < max_retries for the comparison
HandleTaskFailureStrict(task, err, t0) ==
    IF err.exc /\ ~ClassifyRetryable(err.category)
    THEN [task |-> task, status |-> "failed", push |-> FALSE]
    ELSE LET n == task.retry_count + 1
         IN  IF n < task.max_retries
             THEN [task |-> [task EXCEPT !.retry_count = n,
                                         !.next_run_time =
                                             t0 + RetryDelay(n, IsStatusMismatch(err.msg))],
                   status |-> "queued", push |-> TRUE]
             ELSE [task |-> [task EXCEPT !.retry_count = n],
                   status |-> "failed", push |-> FALSE]

\* task: the ScheduledTask as changed; status: the durable status written;
\* push: whether the task is pushed onto the heap again
HandleTaskFailure(task, err, t0) ==
    IF err.exc /\ ~ClassifyRetryable(err.category)
    THEN [task |-> task, status |-> "failed", push |-> FALSE]
    ELSE LET n == task.retry_count + 1
         IN  IF n <= task.max_retries
             THEN [task |-> [task EXCEPT !.retry_count = n,
                                         !.next_run_time =
                                             t0 + RetryDelay(n, IsStatusMismatch(err.msg))],
                   status |-> "queued", push |-> TRUE]
             ELSE [task |-> [task EXCEPT !.retry_count = n],
                   status |-> "failed", push |-> FALSE]

\* TaskScheduler._update_task_status
UpdateTaskStatus(db, t, s) == IF db[t] # "none" THEN [db EXCEPT ![t] = s] ELSE db


(***************************************************************************)
(* The parts of the state at rest: what a specification that does not move *)
(* them starts from.                                                       *)
(***************************************************************************)
NoWorker == [pc |-> "idle", origin |-> "-", stage |-> "-", book |-> 0,
             local |-> "-", result |-> "-", next |-> "-", error |-> "-",
             session |-> "closed", outcome |-> "-", attempts |-> <<>>]
NoFail == [called |-> FALSE, t0 |-> 0, mismatch |-> FALSE, status |-> "-",
           push |-> FALSE, backoff |-> FALSE, delay |-> 0, prev |-> 0]
NoPipeEvent == [op |-> "-", stage |-> "-", n |-> 0]
NoSweep == [age |-> [b \in Books |-> 0], timeout |-> 0, count |-> 0]
NoFlags == [found_qualifying_results |-> FALSE, calibre_exists |-> FALSE]
NoLock == [queue |-> "free", active |-> "free"]
LockUsers == {"loop", "handler", "caller"}
NoLockers == [u \in LockUsers |-> [op |-> "-", todo |-> <<>>]]
NoManager == [running |-> FALSE, stop_event |-> FALSE, stage_stop |-> {},
              shutdown |-> FALSE]
NoSession == [pc |-> "idle", book |-> 0, old |-> "-", new |-> "-", err |-> "-"]

BookIdle ==
    /\ bookStatus = [b \in Books |-> "NEW"]
    /\ dlQueue = [b \in Books |-> "none"]
    /\ history = [b \in Books |-> <<>>]

PipeIdle ==
    /\ workers = [w \in WorkerIds |-> NoWorker]
    /\ paused_stages = [s \in Stages |-> "none"]
    /\ pipe_active = [b \in Books |-> 0]
    /\ pev = NoPipeEvent
    /\ manager = NoManager
    /\ locks = NoLock
    /\ lockers = NoLockers
    /\ search_flags = NoFlags
    /\ sweep = NoSweep

FailIdle ==
    /\ ftask = NoTask
    /\ flast = NoFail

DbIdle == sessions = [s \in SessionIds |-> NoSession]

(***************************************************************************)
(* The Task Scheduler.                                                     *)
(***************************************************************************)
(* The scheduler never reads the book behind a task: what a handler finds   *)
(* in the database when it runs is any status and any queue entry.         *)
\* <<priority, delay_seconds>> of the calls of schedule_task
SchedInputs == {<<5, 0>>, <<10, 0>>, <<10, 10>>}
SchedStages == {"download"}
SchedBooks == {1}
QueueStatuses == {"none", "queued", "downloading", "completed", "failed"}

NoLoop == [pc |-> "dead", tasks_to_run |-> <<>>, slots |-> 0, i |-> 0, started |-> {}]
NoEvent == [op |-> "-", t |-> 0, outcome |-> "-"]
Event(op, t, outcome) == [op |-> op, t |-> t, outcome |-> outcome]

\* TaskScheduler.__init__, with the handlers main.py registers
SchedOnlyInit ==
    /\ now = 0
    /\ tasks = [t \in TaskIds |-> NoTask]
    /\ dbTask = [t \in TaskIds |-> "none"]
    /\ task_queue = <<>>
    /\ active_tasks = {}
    /\ running = FALSE
    /\ stop_event = FALSE
    /\ loop = NoLoop
    /\ threads = {}
    /\ task_handlers = Stages
    /\ total_scheduled = 0
    /\ stopping = FALSE
    /\ ev = NoEvent

SchedInit == SchedOnlyInit /\ BookIdle /\ PipeIdle /\ DbIdle /\ FailIdle /\ popped = <<>>

\* The tasks accepted so far; the model has room for DOMAIN tasks of them
Created == {t \in DOMAIN dbTask : dbTask[t] # "none"}

\* TaskScheduler.schedule_task, accepted.  created_at is a clock reading taken
\* after the readings of all earlier calls: the order of the task ids.
ScheduleTask(b, stage, priority, delay, max_retries) ==
    LET id == Cardinality(Created) + 1
        task == [book_id |-> b, stage |-> stage, priority |-> priority,
                 created_at |-> id, retry_count |-> 0, max_retries |-> max_retries,
                 next_run_time |-> now + delay]
    IN  /\ id \in DOMAIN tasks
        /\ dbTask' = [dbTask EXCEPT ![id] = "queued"]
        /\ tasks' = [tasks EXCEPT ![id] = task]
        /\ task_queue' = HeapPush(tasks', task_queue, id)
        /\ total_scheduled' = total_scheduled + 1
        /\ popped' = <<>>
        /\ ev' = NoEvent
        /\ UNCHANGED <<now, bookVars, pipeVars, failVars, dbVars, mgrVars, lockVars,
                       active_tasks, running,
                       stop_event, loop, threads, task_handlers,
                       stopping, stageVars>>

\* TaskScheduler.start
Start ==
    /\ ~running
    /\ ~stopping
    /\ loop.pc = "dead"
    /\ running' = TRUE
    /\ stop_event' = FALSE
    /\ loop' = [NoLoop EXCEPT !.pc = "top"]
    /\ ev' = NoEvent
    /\ UNCHANGED <<now, nonSched, tasks, dbTask, task_queue, active_tasks,
                   threads, task_handlers, total_scheduled, stopping>>

\* the pop loop without the test of next_run_time: the whole heap is taken
RECURSIVE PopAll(_, _, _, _)
PopAll(T, h, t0, acc) ==
    IF h # <<>>
    THEN LET r == HeapPop(T, h) IN PopAll(T, r[2], t0, Append(acc, r[1]))
    ELSE <<acc, h>>

\* _scheduler_loop: while the heap's first task is due, heappop
RECURSIVE PopDue(_, _, _, _)
PopDue(T, h, t0, acc) ==
    IF h # <<>> /\ T[h[1]].next_run_time <= t0
    THEN LET r == HeapPop(T, h) IN PopDue(T, r[2], t0, Append(acc, r[1]))
    ELSE <<acc, h>>

\* _scheduler_loop: the while condition, then the pop of every due task
LoopPop ==
    /\ loop.pc = "top"
    /\ running /\ ~stop_event
    /\ LET r == PopDue(tasks, task_queue, now, <<>>)
       IN  /\ task_queue' = r[2]
           /\ loop' = [pc |-> "check", tasks_to_run |-> r[1], slots |-> 0, i |-> 1,
                       started |-> {}]
    /\ ev' = NoEvent
    /\ UNCHANGED <<now, nonSched, tasks, dbTask, active_tasks, running,
                   stop_event, threads, task_handlers, total_scheduled, stopping>>

\* _scheduler_loop: the while condition fails, the thread ends
LoopExit ==
    /\ loop.pc = "top"
    /\ ~(running /\ ~stop_event)
    /\ loop' = NoLoop
    /\ ev' = NoEvent
    /\ UNCHANGED <<now, nonSched, tasks, dbTask, task_queue, active_tasks,
                   running, stop_event, threads, task_handlers, total_scheduled, stopping>>

\* available_slots, computed one too high
AvailableSlotsOneMore(active) == MaxConcurrentTasks - Cardinality(active) + 1

\* available_slots = self.max_concurrent_tasks - len(self._active_tasks)
AvailableSlots(active) == MaxConcurrentTasks - Cardinality(active)

\* tasks_to_run[:available_slots]
ToExecute(l) == SubSeq(l.tasks_to_run, 1, Min(l.slots, Len(l.tasks_to_run)))

\* _scheduler_loop: the concurrency check
LoopCheck ==
    /\ loop.pc = "check"
    /\ LET slots == AvailableSlots(active_tasks)
           back == slots <= 0
           l2 == [loop EXCEPT !.slots = slots,
                              !.tasks_to_run = IF back THEN <<>> ELSE @]
       IN  /\ task_queue' = IF back THEN PushAll(tasks, task_queue, loop.tasks_to_run)
                            ELSE task_queue
           /\ loop' = [l2 EXCEPT !.pc = IF ToExecute(l2) = <<>> THEN "cleanup" ELSE "exec"]
    /\ ev' = NoEvent
    /\ UNCHANGED <<now, nonSched, tasks, dbTask, active_tasks, running,
                   stop_event, threads, task_handlers, total_scheduled, stopping>>

\* _scheduler_loop: one round of the for loop, with TaskScheduler._execute_task
LoopExec ==
    /\ loop.pc = "exec"
    /\ LET t == loop.tasks_to_run[loop.i]
           last == loop.i >= Len(ToExecute(loop))
       IN  IF stop_event
           THEN /\ loop' = [loop EXCEPT !.pc = "cleanup"]
                /\ UNCHANGED <<dbTask, active_tasks, threads>>
           ELSE /\ loop' = [loop EXCEPT !.i = @ + 1,
                                        !.started = @ \cup {t},
                                        !.pc = IF last THEN "cleanup" ELSE "exec"]
                /\ IF tasks[t].stage \notin task_handlers
                   THEN /\ dbTask' = UpdateTaskStatus(dbTask, t, "failed")
                        /\ UNCHANGED <<active_tasks, threads>>
                   ELSE /\ active_tasks' = active_tasks \cup {t}
                        /\ dbTask' = UpdateTaskStatus(dbTask, t, "active")
                        /\ threads' = threads \cup {<<t, "run">>}
    /\ ev' = NoEvent
    /\ UNCHANGED <<now, nonSched, tasks, task_queue, running, stop_event,
                   task_handlers, total_scheduled, stopping>>

\* _scheduler_loop: _cleanup_completed_tasks and the sleep that ends the tick;
\* the locals of the tick are dropped
LoopCleanup ==
    /\ loop.pc = "cleanup"
    /\ loop' = [NoLoop EXCEPT !.pc = "top"]
    /\ ev' = NoEvent
    /\ UNCHANGED <<now, nonSched, tasks, dbTask, task_queue, active_tasks,
                   running, stop_event, threads, task_handlers, total_scheduled, stopping>>

\* What the handler of main.py gives run_handler for the result of execute
HandlerError(result) ==
    IF result = "raise"
    THEN [exc |-> TRUE, category |-> "quota_exhausted", msg |-> NoMsg]
    ELSE NoError

\* The outcomes of process() by what they are to the caller
OutcomeClass(outcome) ==
    CASE outcome \in {"ok", "exists", "noqual"} -> "success"
      [] outcome \in {"network", "system"}      -> "retryable"
      [] outcome \in {"auth", "not_found", "final"} -> "permanent"
      [] OTHER                                  -> outcome

\* What a handler run can come to: <<result of execute, class of the outcome of
\* process or "mismatch" when process was not invoked>>, over all the handler can
\* find the book in
HandlerRuns ==
    [stage \in Stages |->
        {<<Execute(stage, live, queue, outcome).result,
           IF Execute(stage, live, queue, outcome).invoked
           THEN OutcomeClass(outcome) ELSE "mismatch">> :
              <<live, queue, outcome>> \in
                  BookStatuses \X QueueStatuses \X ProcessOutcomes(stage)}]

\* run_handler: the handler of main.py around BaseStage.execute, then the
\* bookkeeping of its result
HandlerRun(t) ==
    /\ <<t, "run">> \in threads
    /\ LET task == tasks[t]
       IN  \E r \in HandlerRuns[task.stage] :
             LET f == HandleTaskFailure(task, HandlerError(r[1]), now)
             IN  /\ ev' = Event("handler", t, r[2])
                 /\ IF r[1] = "true"
                    THEN /\ dbTask' = UpdateTaskStatus(dbTask, t, "completed")
                         /\ UNCHANGED <<tasks, task_queue>>
                    ELSE /\ tasks' = [tasks EXCEPT ![t] = f.task]
                         /\ task_queue' = IF f.push THEN HeapPush(tasks', task_queue, t)
                                          ELSE task_queue
                         /\ dbTask' = UpdateTaskStatus(dbTask, t, f.status)
    /\ threads' = (threads \ {<<t, "run">>}) \cup {<<t, "finally">>}
    /\ UNCHANGED <<now, nonSched, active_tasks, running, stop_event, loop,
                   task_handlers, total_scheduled, stopping>>

\* run_handler: the finally block
HandlerFinally(t) ==
    /\ <<t, "finally">> \in threads
    /\ threads' = threads \ {<<t, "finally">>}
    /\ active_tasks' = active_tasks \ {t}
    /\ ev' = NoEvent
    /\ UNCHANGED <<now, nonSched, tasks, dbTask, task_queue, running,
                   stop_event, loop, task_handlers, total_scheduled, stopping>>

RECURSIVE CancelAll(_, _)
CancelAll(db, h) ==
    IF h = <<>> THEN db ELSE CancelAll(UpdateTaskStatus(db, Head(h), "cancelled"), Tail(h))

\* TaskScheduler.stop: the flags are set and the loop thread is joined ...
StopBegin ==
    /\ running
    /\ ~stopping
    /\ running' = FALSE
    /\ stop_event' = TRUE
    /\ stopping' = TRUE
    /\ ev' = NoEvent
    /\ UNCHANGED <<now, nonSched, tasks, dbTask, task_queue, active_tasks,
                   loop, threads, task_handlers, total_scheduled>>

\* ... then the queued tasks are cancelled and the active-task map is cleared
StopFinish ==
    /\ stopping
    /\ loop.pc = "dead"
    /\ dbTask' = CancelAll(dbTask, task_queue)
    /\ task_queue' = <<>>
    /\ active_tasks' = {}
    /\ stopping' = FALSE
    /\ ev' = NoEvent
    /\ UNCHANGED <<now, nonSched, tasks, running, stop_event, loop, threads,
                   task_handlers, total_scheduled>>

\* TaskScheduler.cancel_task
CancelTask(t) ==
    /\ dbTask[t] # "none"
    /\ task_queue' = Heapify(tasks, SelectSeq(task_queue, LAMBDA x : x # t))
    /\ dbTask' = UpdateTaskStatus(dbTask, t, "cancelled")
    /\ ev' = NoEvent
    /\ UNCHANGED <<now, nonSched, tasks, active_tasks, running, stop_event,
                   loop, threads, task_handlers, total_scheduled, stopping>>

\* Time passes: the clock reaches the next run time of a queued task
AdvanceClock ==
    /\ \E t \in Range(task_queue) :
          /\ tasks[t].next_run_time > now
          /\ tasks[t].next_run_time <= MaxNow
          /\ now' = tasks[t].next_run_time
    /\ ev' = NoEvent
    /\ UNCHANGED <<nonSched, tasks, dbTask, task_queue, active_tasks,
                   running, stop_event, loop, threads, task_handlers, total_scheduled,
                   stopping>>

SchedNext ==
    \/ \E b \in SchedBooks, stage \in SchedStages, pd \in SchedInputs,
          m \in {MaxRetries} : ScheduleTask(b, stage, pd[1], pd[2], m)
    \/ Start
    \/ LoopPop
    \/ LoopCheck
    \/ LoopExec
    \/ LoopCleanup
    \/ \E t \in TaskIds : HandlerRun(t)
    \/ \E t \in TaskIds : HandlerFinally(t)
    \/ AdvanceClock

SchedSpec == SchedInit /\ [][SchedNext]_vars

\* The scheduler with stop(), a later start() and cancel_task
LifeNext ==
    \/ SchedNext
    \/ LoopExit
    \/ StopBegin
    \/ StopFinish
    \/ \E t \in TaskIds : CancelTask(t)

LifeSpec == SchedInit /\ [][LifeNext]_vars

(***************************************************************************)
(* Properties of the Task Scheduler.                                       *)
(***************************************************************************)
\* C1: in every reachable state the number of tasks in the active-task map is at
\* most max_concurrent_tasks, for any interleaving of the scheduler loop and the
\* handler threads.
ActiveWithinLimit == Cardinality(active_tasks) <= MaxConcurrentTasks

\* The limit binds: the map is full while the loop holds a due task it popped.
ActiveLimitBinds ==
    /\ Cardinality(active_tasks) = MaxConcurrentTasks
    /\ loop.pc = "check"
    /\ loop.tasks_to_run # <<>>

\* C2: at the end of a tick that popped k due tasks and found s free slots with
\* 0 < s < k, exactly s tasks were started and each of the other k - s tasks is
\* in the heap, with durable status queued and its next_run_time as it was (due).
OverflowStaysInHeap ==
    (loop.pc = "cleanup" /\ 0 < loop.slots /\ loop.slots < Len(loop.tasks_to_run)) =>
        /\ Cardinality(loop.started) = loop.slots
        /\ \A j \in (loop.slots + 1)..Len(loop.tasks_to_run) :
              LET t == loop.tasks_to_run[j]
              IN  /\ t \in Range(task_queue)
                  /\ dbTask[t] = "queued"
                  /\ tasks[t].next_run_time <= now

\* C3: no accepted task is queued without a way to run: while the loop keeps
\* running, a task whose durable status is queued is in the heap or is held by
\* the current tick to be started or pushed back.  (A task that is queued, out of
\* the heap and not held by the loop is never looked at again: nothing but
\* schedule_task and the failure of a started task pushes onto the heap.)
QueuedTaskCanRun ==
    \A t \in TaskIds :
        dbTask[t] = "queued" =>
            \/ t \in Range(task_queue)
            \/ loop.pc = "check" /\ t \in Range(loop.tasks_to_run)
            \/ loop.pc = "exec"
                 /\ \E j \in loop.i..Len(ToExecute(loop)) : loop.tasks_to_run[j] = t

\* C4: when the handler of a task fails with a retryable error, the task is
\* queued and pushed back onto the heap if its retry count, after the increment,
\* is at most max_retries, and is marked failed and left out of the heap
\* otherwise; a failed task is not in the heap and no handler runs for it.
RetriesAreCounted ==
    /\ (ev.op = "handler" /\ ev.outcome = "retryable") =>
          LET t == ev.t
          IN  IF tasks[t].retry_count <= tasks[t].max_retries
              THEN /\ dbTask[t] = "queued"
                   /\ t \in Range(task_queue)
                   /\ tasks[t].next_run_time > now
              ELSE /\ dbTask[t] = "failed"
                   /\ tasks[t].retry_count = tasks[t].max_retries + 1
                   /\ t \notin Range(task_queue)
    /\ \A t \in TaskIds :
          dbTask[t] = "failed" =>
              /\ t \notin Range(task_queue)
              /\ ~(loop.pc = "check" /\ t \in Range(loop.tasks_to_run))
              /\ ~(loop.pc = "exec"
                     /\ \E j \in loop.i..Len(ToExecute(loop)) : loop.tasks_to_run[j] = t)
              /\ <<t, "run">> \notin threads

\* The retry that follows the last allowed one has failed.
RetriesExhausted ==
    /\ ev.op = "handler"
    /\ ev.outcome = "retryable"
    /\ tasks[ev.t].max_retries >= 1
    /\ tasks[ev.t].retry_count = tasks[ev.t].max_retries + 1
    /\ dbTask[ev.t] = "failed"

\* C5: when process raises a non-retryable classified error (auth, not_found)
\* under a handler of the scheduler, the task's durable status is failed at once
\* and the task is not pushed onto the heap again.
PermanentErrorFailsTask ==
    (ev.op = "handler" /\ ev.outcome = "permanent") =>
        /\ dbTask[ev.t] = "failed"
        /\ ev.t \notin Range(task_queue)

(***************************************************************************)
(* The heap of the scheduler by itself: tasks are scheduled, cancelled and  *)
(* popped when due, and nothing runs.                                       *)
(***************************************************************************)
HeapInit ==
    /\ now = 0
    /\ tasks = [t \in HeapIds |-> NoTask]
    /\ dbTask = [t \in HeapIds |-> "none"]
    /\ task_queue = <<>>
    /\ active_tasks = {}
    /\ running = FALSE
    /\ stop_event = FALSE
    /\ loop = NoLoop
    /\ threads = {}
    /\ task_handlers = Stages
    /\ total_scheduled = 0
    /\ stopping = FALSE
    /\ ev = NoEvent
    /\ popped = <<>>
    /\ BookIdle /\ PipeIdle /\ DbIdle /\ FailIdle

\* _scheduler_loop: one round of the while loop that pops the due tasks
PopTask ==
    /\ task_queue # <<>>
    /\ tasks[task_queue[1]].next_run_time <= now
    /\ LET r == HeapPop(tasks, task_queue)
       IN  /\ task_queue' = r[2]
           /\ popped' = Append(popped, r[1])
    /\ ev' = NoEvent
    /\ UNCHANGED <<now, bookVars, pipeVars, failVars, dbVars, mgrVars, lockVars, tasks,
                   dbTask, active_tasks,
                   running, stop_event, loop, threads, task_handlers, total_scheduled,
                   stopping, stageVars>>

HeapNext ==
    \/ \E b \in SchedBooks, stage \in SchedStages, pd \in SchedInputs :
          ScheduleTask(b, stage, pd[1], pd[2], MaxRetries)
    \/ \E t \in HeapIds : CancelTask(t)
    \/ PopTask
    \/ AdvanceClock

HeapSpec == HeapInit /\ [][HeapNext]_vars

\* C7: the tasks popped since the last push came out by next_run_time ascending,
\* then priority descending, then created_at ascending, and each of them comes
\* before every task still in the heap in that order, also when cancel_task has
\* rebuilt the heap in between.
PopsInOrder ==
    LET Before(a, b) ==
            \/ a.next_run_time < b.next_run_time
            \/ a.next_run_time = b.next_run_time /\ a.priority > b.priority
            \/ a.next_run_time = b.next_run_time /\ a.priority = b.priority
                 /\ a.created_at < b.created_at
    IN  /\ \A i, j \in 1..Len(popped) :
              i < j => Before(tasks[popped[i]], tasks[popped[j]])
        /\ \A i \in 1..Len(popped) : \A t \in Range(task_queue) :
              Before(tasks[popped[i]], tasks[t])

\* Three pops at one next_run_time, by priority and then by age, after a task
\* that was in the heap has been cancelled.
PopsAfterCancel ==
    /\ Len(popped) >= 3
    /\ \E t \in HeapIds : dbTask[t] = "cancelled" /\ t \notin Range(popped)
    /\ tasks[popped[1]].next_run_time = tasks[popped[3]].next_run_time
    /\ tasks[popped[1]].priority > tasks[popped[2]].priority
    /\ tasks[popped[2]].priority = tasks[popped[3]].priority

(***************************************************************************)
(* _handle_task_failure by itself: one task fails again and again, each    *)
(* time with any error and at any time.                                    *)
(***************************************************************************)
\* The errors run_handler passes: none when the handler returned False, the
\* exception and its text when the handler raised
FailErrors ==
    {NoError,
     [exc |-> TRUE, category |-> "network", msg |-> NoMsg],
     [exc |-> TRUE, category |-> "auth", msg |-> NoMsg],
     [exc |-> TRUE, category |-> "status_mismatch",
      msg |-> [sm |-> TRUE, zt |-> FALSE, qn |-> FALSE]],
     [exc |-> TRUE, category |-> "system",
      msg |-> [sm |-> FALSE, zt |-> TRUE, qn |-> TRUE]],
     [exc |-> TRUE, category |-> "system",
      msg |-> [sm |-> FALSE, zt |-> TRUE, qn |-> FALSE]]}
FailTimes == {0, 7}

FailInit ==
    /\ ftask \in {[book_id |-> 1, stage |-> "download", priority |-> 5, created_at |-> 1,
                   retry_count |-> 0, max_retries |-> m, next_run_time |-> 0] :
                      m \in 0..MaxFailures}
    /\ flast = NoFail
    /\ SchedOnlyInit /\ BookIdle /\ PipeIdle /\ DbIdle /\ popped = <<>>

\* A handler run of ftask fails at time t0 with err: _handle_task_failure
Fail(err, t0) ==
    /\ ~flast.called \/ flast.push
    /\ ftask.retry_count < MaxFailures
    /\ LET r == HandleTaskFailure(ftask, err, t0)
           mismatch == IsStatusMismatch(err.msg)
       IN  /\ ftask' = r.task
           /\ flast' = [called |-> TRUE, t0 |-> t0, mismatch |-> mismatch,
                        status |-> r.status, push |-> r.push,
                        backoff |-> r.push /\ ~(mismatch /\ r.task.retry_count <= 2),
                        delay |-> IF r.push THEN r.task.next_run_time - t0 ELSE 0,
                        prev |-> IF flast.backoff THEN flast.delay ELSE flast.prev]
    /\ UNCHANGED <<schedVars, bookVars, pipeVars, dbVars, mgrVars, lockVars, popped, stageVars>>

FailNext == \E err \in FailErrors, t0 \in FailTimes : Fail(err, t0)

FailSpec == FailInit /\ [][FailNext]_vars

\* C6: a task re-queued with retry count n (after the increment) gets
\* next_run_time = now + 5 + 5n when the failure is a status mismatch and n <= 2,
\* and now + min(300, 30 * 2^(n-1)) otherwise; from one exponential-backoff retry
\* to the next the delay does not decrease, and it is never above 300.
RetryDelayIsAsStated ==
    (flast.called /\ flast.push) =>
        LET n == ftask.retry_count
            exp == 30 * (2 ^ (n - 1))
        IN  /\ n >= 1
            /\ ftask.next_run_time =
                  flast.t0 + (IF flast.mismatch /\ n <= 2 THEN 5 + 5 * n
                              ELSE IF exp < 300 THEN exp ELSE 300)
            /\ flast.backoff => flast.prev <= flast.delay /\ flast.delay <= 300

\* Two exponential-backoff retries in a row at the cap.
RetryDelayAtCap ==
    /\ flast.called /\ flast.push /\ flast.backoff
    /\ flast.delay = 300
    /\ flast.prev = 300

(***************************************************************************)
(* BaseStage.execute step by step, run by the workers of the Pipeline      *)
(* Manager's pool and by handler threads of the scheduler, on the books of *)
(* one database.                                                           *)
(***************************************************************************)
PipeStages == {"download", "upload"}
PipeEvent(op, stage, n) == [op |-> op, stage |-> stage, n |-> n]

\* update_book_status_with_history with the history row left out
WriteStatusOnly(bs, h, b, old, new, err, rc) ==
    [status |-> [bs EXCEPT ![b] = new], history |-> h]

\* What the unit of work of update_book_status_with_history commits: the new
\* status of the book and the BookStatusHistory row that was added
WriteStatusWithHistory(bs, h, b, old, new, err, rc) ==
    [status |-> [bs EXCEPT ![b] = new],
     history |-> [h EXCEPT ![b] = Append(@, <<old, new, err, rc>>)]]

\* Database.update_book_status_with_history: in one session_scope the status of
\* the book is set and one BookStatusHistory row <<old_status, new_status,
\* error_message, retry_count>> is added; nothing is done for a book that has
\* no row
UpdateBookStatusWithHistory(bs, h, b, new, err, rc) ==
    IF b \in DOMAIN bs
    THEN WriteStatusWithHistory(bs, h, b, bs[b], new, err, rc)
    ELSE [status |-> bs, history |-> h]

\* update_book_status_with_history: retry_count: int = 0
DefaultRetryCount == 0

\* BookStateManager.transition_status: the status is written and one history
\* row is added, whatever the old and the new status are; its callers give it
\* no retry count
TransitionStatus(bs, h, b, new, err) ==
    UpdateBookStatusWithHistory(bs, h, b, new, err, DefaultRetryCount)

\* BookStateManager.get_books_by_stage: the books whose status the stage accepts
GetBooksByStage(bs, stage) == {b \in Books : bs[b] \in SchedulableStatuses(stage)}

\* _process_stage: the stage is skipped when it is in _paused_stages
StagePausedNever(paused, stage) == FALSE

StagePaused(paused, stage) == paused[stage] # "none"

\* _execute_stage_with_session, except DownloadLimitExhaustedError: nothing recorded
QuotaPauseNone(paused, origin, stage) == paused

\* _execute_stage_with_session, except DownloadLimitExhaustedError; a handler
\* of the scheduler has no such clause
QuotaPause(paused, origin, stage) ==
    IF origin = "pipeline" THEN [paused EXCEPT ![stage] = "download_limit"]
    ELSE paused

PipeInit ==
    /\ bookStatus \in [Books -> {"DOWNLOAD_QUEUED", "DOWNLOAD_COMPLETE"}]
    /\ dlQueue = [b \in Books |->
                    IF bookStatus[b] = "DOWNLOAD_QUEUED" THEN "queued" ELSE "completed"]
    /\ history = [b \in Books |-> <<>>]
    /\ PipeIdle /\ DbIdle
    /\ SchedOnlyInit /\ FailIdle /\ popped = <<>>

IdleWorkers == {w \in DOMAIN workers : workers[w].pc = "idle"}

\* The handler of main.py, called by run_handler: the handler opens its session
\* and stage.execute(book) begins
TaskStart(stage, b) ==
    /\ IdleWorkers # {}
    /\ LET w == CHOOSE x \in IdleWorkers : \A y \in IdleWorkers : x <= y
       IN  workers' = [workers EXCEPT ![w] =
                          [NoWorker EXCEPT !.pc = "refresh", !.origin = "task",
                                           !.stage = stage, !.book = b,
                                           !.session = "open"]]
    /\ pev' = NoPipeEvent
    /\ UNCHANGED <<schedVars, bookVars, failVars, dbVars, mgrVars, lockVars, popped,
                   paused_stages, pipe_active, stageVars>>

\* The futures of _active_tasks that are not done
ActiveCount == Cardinality({b \in Books : pipe_active[b] # 0
                                          /\ workers[pipe_active[b]].pc # "done"})

RECURSIVE SubmitAll(_, _, _, _)
SubmitAll(ws, pa, stage, S) ==
    IF S = {} THEN <<ws, pa>>
    ELSE LET b == CHOOSE x \in S : \A y \in S : x <= y
             idle == {w \in DOMAIN ws : ws[w].pc = "idle"}
             w == CHOOSE x \in idle : \A y \in idle : x <= y
         IN  SubmitAll([ws EXCEPT ![w] =
                           [NoWorker EXCEPT !.pc = "submitted", !.origin = "pipeline",
                                            !.stage = stage, !.book = b]],
                       [pa EXCEPT ![b] = w], stage, S \ {b})

\* PipelineManager._process_stage
ProcessStage(stage) ==
    /\ LET cand == {b \in GetBooksByStage(bookStatus, stage) :
                       CanProcess(stage, bookStatus[b], bookStatus[b],
                                  dlQueue[b] = "queued")}
           slots == MaxWorkers - ActiveCount
       IN  IF StagePaused(paused_stages, stage) \/ cand = {} \/ slots <= 0
           THEN /\ pev' = NoPipeEvent
                /\ UNCHANGED <<workers, pipe_active>>
           ELSE \E S \in SUBSET cand :
                  /\ Cardinality(S) = Min(slots, Cardinality(cand))
                  /\ Cardinality(S) <= Cardinality(IdleWorkers)
                  /\ LET r == SubmitAll(workers, pipe_active, stage, S)
                     IN  workers' = r[1] /\ pipe_active' = r[2]
                  /\ pev' = PipeEvent("tick", stage, Cardinality(S))
    /\ UNCHANGED <<schedVars, bookVars, failVars, dbVars, mgrVars, lockVars, popped,
                   paused_stages, stageVars>>

\* A thread of the pool takes the submitted call of _execute_stage_with_session,
\* which opens its session and calls stage.execute(book)
PoolRun(w) ==
    /\ workers[w].pc = "submitted"
    /\ Cardinality({x \in DOMAIN workers : workers[x].origin = "pipeline"
                       /\ workers[x].pc \notin {"submitted", "done"}}) < MaxWorkers
    /\ workers' = [workers EXCEPT ![w].pc = "refresh", ![w].session = "open"]
    /\ pev' = NoPipeEvent
    /\ UNCHANGED <<schedVars, bookVars, failVars, dbVars, mgrVars, lockVars, popped,
                   paused_stages, pipe_active, stageVars>>

\* execute: the book's status is read again
ExecRefresh(w) ==
    /\ workers[w].pc = "refresh"
    /\ workers' = [workers EXCEPT ![w].pc = "check",
                                  ![w].local = bookStatus[workers[w].book]]
    /\ pev' = NoPipeEvent
    /\ UNCHANGED <<schedVars, bookVars, failVars, dbVars, mgrVars, lockVars, popped,
                   paused_stages, pipe_active, stageVars>>

\* execute: can_process; the ProcessingError raised when it fails is caught by
\* execute itself, which then writes FAILED_PERMANENT
ExecCheck(w) ==
    /\ workers[w].pc = "check"
    /\ LET x == workers[w]
       IN  IF CanProcess(x.stage, x.local, bookStatus[x.book], dlQueue[x.book] = "queued")
           THEN workers' = [workers EXCEPT ![w].pc =
                               IF x.stage = "search" /\ x.local = "DETAIL_COMPLETE"
                               THEN "pre" ELSE "active"]
           ELSE workers' = [workers EXCEPT ![w].pc = "reject", ![w].result = "false",
                                           ![w].next = "FAILED_PERMANENT",
                                           ![w].error = "status_mismatch"]
    /\ pev' = NoPipeEvent
    /\ UNCHANGED <<schedVars, bookVars, failVars, dbVars, mgrVars, lockVars, popped,
                   paused_stages, pipe_active, stageVars>>

\* execute without the transition to SEARCH_QUEUED
ExecPreSkipped(w) ==
    /\ workers[w].pc = "pre"
    /\ workers' = [workers EXCEPT ![w].pc = "active", ![w].local = "SEARCH_QUEUED"]
    /\ pev' = NoPipeEvent
    /\ UNCHANGED <<schedVars, bookVars, failVars, dbVars, mgrVars, lockVars, popped,
                   paused_stages, pipe_active, stageVars>>

\* execute: the search stage's transition to SEARCH_QUEUED
ExecPre(w) ==
    /\ workers[w].pc = "pre"
    /\ LET r == TransitionStatus(bookStatus, history, workers[w].book,
                                 "SEARCH_QUEUED", "-")
       IN  bookStatus' = r.status /\ history' = r.history
    /\ workers' = [workers EXCEPT ![w].pc = "active", ![w].local = "SEARCH_QUEUED"]
    /\ pev' = NoPipeEvent
    /\ UNCHANGED <<schedVars, dlQueue, failVars, dbVars, mgrVars, lockVars, popped,
                   paused_stages, pipe_active, stageVars>>

\* execute: the transition to the active sub-status
ExecActive(w) ==
    /\ workers[w].pc = "active"
    /\ LET r == TransitionStatus(bookStatus, history, workers[w].book,
                                 ActiveStatus(workers[w].stage), "-")
       IN  bookStatus' = r.status /\ history' = r.history
    /\ workers' = [workers EXCEPT ![w].pc = "process"]
    /\ pev' = NoPipeEvent
    /\ UNCHANGED <<schedVars, dlQueue, failVars, dbVars, mgrVars, lockVars, popped,
                   paused_stages, pipe_active, stageVars>>

\* execute: process has returned or raised something other than the
\* DownloadLimitExhaustedError; the status to write is chosen by
\* get_next_status or, in the except clauses, by the error's retryable flag
Returned(x, outcome) ==
    [x EXCEPT
        !.pc = "write",
        !.outcome = outcome,
        !.result = IF outcome \in {"ok", "exists", "noqual"} THEN "true" ELSE "false",
        !.error = IF outcome \in {"ok", "exists", "noqual", "reset"} THEN "-" ELSE outcome,
        !.next = CASE outcome \in {"ok", "exists", "noqual"} ->
                         NextStatus(x.stage, TRUE, outcome)
                   [] outcome = "reset" -> NextStatus(x.stage, FALSE, outcome)
                   [] outcome = "crash" -> "FAILED_PERMANENT"
                   [] OTHER -> IF ErrorRetryable(outcome)
                               THEN RetryStatus(x.stage)
                               ELSE "FAILED_PERMANENT"]

\* execute: process(book) and what execute makes of its outcome; the
\* DownloadLimitExhaustedError is raised again, to _execute_stage_with_session
\* or to run_handler
ExecProcess(w, outcome) ==
    /\ workers[w].pc = "process"
    /\ LET x == workers[w]
           b == x.book
       IN  /\ dlQueue' = [dlQueue EXCEPT ![b] = QueueAfter(x.stage, outcome, @)]
           /\ IF outcome = "reset"
              THEN LET r == TransitionStatus(bookStatus, history, b, "SEARCH_QUEUED", "-")
                   IN  bookStatus' = r.status /\ history' = r.history
              ELSE UNCHANGED <<bookStatus, history>>
           /\ IF outcome = "quota"
              THEN /\ workers' = [workers EXCEPT ![w].pc = "done", ![w].result = "raise",
                                                  ![w].error = "download_limit",
                                                  ![w].outcome = outcome,
                                                  ![w].session = "closed"]
                   /\ paused_stages' = QuotaPause(paused_stages, x.origin, x.stage)
                   /\ pev' = PipeEvent("quota", x.stage, 0)
              ELSE /\ workers' = [workers EXCEPT ![w] = Returned(x, outcome)]
                   /\ paused_stages' = paused_stages
                   /\ pev' = NoPipeEvent
    /\ UNCHANGED <<schedVars, failVars, dbVars, mgrVars, lockVars, popped, pipe_active, stageVars>>

\* execute: the transition that ends it; execute returns and the caller's
\* session is committed and closed
ExecWrite(w) ==
    /\ workers[w].pc \in {"write", "reject"}
    /\ LET r == TransitionStatus(bookStatus, history, workers[w].book,
                                 workers[w].next, workers[w].error)
       IN  bookStatus' = r.status /\ history' = r.history
    /\ workers' = [workers EXCEPT ![w].pc = "done", ![w].session = "closed"]
    /\ pev' = NoPipeEvent
    /\ UNCHANGED <<schedVars, dlQueue, failVars, dbVars, mgrVars, lockVars, popped,
                   paused_stages, pipe_active, stageVars>>

\* PipelineManager._cleanup_completed_tasks
CleanupCompletedTasks ==
    /\ pipe_active' = [b \in Books |->
                         IF pipe_active[b] # 0 /\ workers[pipe_active[b]].pc = "done"
                         THEN 0 ELSE pipe_active[b]]
    /\ pev' = NoPipeEvent
    /\ UNCHANGED <<schedVars, bookVars, failVars, dbVars, mgrVars, lockVars, popped,
                   workers, paused_stages, stageVars>>

\* PipelineManager.resume_stage
ResumeStage(stage) ==
    /\ paused_stages' = [paused_stages EXCEPT ![stage] = "none"]
    /\ pev' = PipeEvent("resume", stage, 0)
    /\ UNCHANGED <<schedVars, bookVars, failVars, dbVars, mgrVars, lockVars, popped,
                   workers, pipe_active, stageVars>>

PipeNext ==
    \/ \E stage \in PipeStages, b \in Books : TaskStart(stage, b)
    \/ \E stage \in PipeStages : ProcessStage(stage)
    \/ \E w \in WorkerIds : PoolRun(w)
    \/ \E w \in WorkerIds : ExecRefresh(w)
    \/ \E w \in WorkerIds : ExecCheck(w)
    \/ \E w \in WorkerIds : ExecActive(w)
    \/ \E w \in WorkerIds : \E outcome \in ProcessOutcomes(workers[w].stage) :
          ExecProcess(w, outcome)
    \/ \E w \in WorkerIds : ExecWrite(w)
    \/ CleanupCompletedTasks
    \/ \E stage \in PipeStages : ResumeStage(stage)

PipeSpec == PipeInit /\ [][PipeNext]_vars

(***************************************************************************)
(* Properties of BaseStage.execute and of the Pipeline Manager.            *)
(***************************************************************************)
\* C8: for one item at most one execution is between setting the active
\* sub-status and writing the resulting status: two executions for the same
\* item never both pass the can_process check and run process.
OneWorkerPerItem ==
    \A w1, w2 \in WorkerIds :
        (w1 # w2 /\ workers[w1].book # 0 /\ workers[w1].book = workers[w2].book) =>
            ~(workers[w1].pc \in {"process", "write"}
                 /\ workers[w2].pc \in {"process", "write"})

QuotaUnderHandlerPausesStage ==
    (ev.op = "handler" /\ ev.outcome = "quota") =>
        /\ StagePaused(paused_stages, tasks[ev.t].stage)
        /\ dbTask[ev.t] = "failed"
        /\ ev.t \notin Range(task_queue)

(***************************************************************************)
(* What BaseStage.execute writes.                                          *)
(***************************************************************************)
\* C12: an execution whose can_process check has rejected the live status of the
\* item goes on neither to the active sub-status nor to process, and ends
\* without writing the item: status and history are as they were.
MismatchLeavesItemAlone ==
    [][\A w \in WorkerIds :
          workers[w].pc = "reject" =>
              /\ workers'[w].pc \in {"reject", "done"}
              /\ workers'[w].pc = "done" => UNCHANGED <<bookStatus, history>>]_vars

(***************************************************************************)
(* BaseStage.execute of the four stages, run by handler threads on the     *)
(* books of one database, without the Pipeline Manager.                    *)
(***************************************************************************)
ExecStart == {"NEW", "DETAIL_COMPLETE", "DOWNLOAD_QUEUED", "DOWNLOAD_COMPLETE"}

ExecInit ==
    /\ bookStatus \in [Books -> ExecStart]
    /\ dlQueue = [b \in Books |->
                    CASE bookStatus[b] = "DOWNLOAD_QUEUED"   -> "queued"
                      [] bookStatus[b] = "DOWNLOAD_COMPLETE" -> "completed"
                      [] OTHER                               -> "none"]
    /\ history = [b \in Books |-> <<>>]
    /\ PipeIdle /\ DbIdle
    /\ SchedOnlyInit /\ FailIdle /\ popped = <<>>

ExecNext ==
    \/ \E stage \in Stages, b \in Books : TaskStart(stage, b)
    \/ \E w \in WorkerIds : ExecRefresh(w)
    \/ \E w \in WorkerIds : ExecCheck(w)
    \/ \E w \in WorkerIds : ExecPre(w)
    \/ \E w \in WorkerIds : ExecActive(w)
    \/ \E w \in WorkerIds : \E outcome \in ProcessOutcomes(workers[w].stage) :
          ExecProcess(w, outcome)
    \/ \E w \in WorkerIds : ExecWrite(w)

ExecSpec == ExecInit /\ [][ExecNext]_vars

\* C13: when process raises a ProcessingError other than the quota signal, the
\* raising step writes nothing and execute then makes exactly one transition:
\* to NEW, SEARCH_QUEUED, DOWNLOAD_QUEUED or UPLOAD_QUEUED (by stage) when the
\* error is retryable (network, system), to FAILED_PERMANENT when it is not
\* (auth, not_found, any other with retryable=False); the history row of that
\* transition carries the error, and execute returns False and raises nothing.
ClassifiedErrorWritesOnce ==
    [][\A w \in WorkerIds :
          LET x == workers[w]
              b == x.book
              queued == CASE x.stage = "data_collection" -> "NEW"
                          [] x.stage = "search"          -> "SEARCH_QUEUED"
                          [] x.stage = "download"        -> "DOWNLOAD_QUEUED"
                          [] OTHER                       -> "UPLOAD_QUEUED"
              target == IF x.error \in {"network", "system"}
                        THEN queued ELSE "FAILED_PERMANENT"
          IN  /\ (x.pc = "process" /\ workers'[w].pc = "write"
                    /\ workers'[w].error \in
                          {"network", "system", "auth", "not_found", "final"}) =>
                     /\ UNCHANGED <<bookStatus, history>>
                     /\ workers'[w].result = "false"
              /\ (x.pc = "write"
                    /\ x.error \in {"network", "system", "auth", "not_found", "final"}) =>
                     \/ workers'[w] = x
                     \/ /\ workers'[w] = [x EXCEPT !.pc = "done", !.session = "closed"]
                        /\ bookStatus'[b] = target
                        /\ history'[b] = Append(history[b],
                                                <<bookStatus[b], target, x.error,
                                                  DefaultRetryCount>>)
              /\ (x.pc = "done" /\ x.origin = "task") => workers'[w] = x]_vars

\* Two executions have ended: one whose process raised a retryable error has put
\* its book back into the queued sub-status of its stage, one whose process
\* raised a non-retryable error has put its book into FAILED_PERMANENT.
ClassifiedErrorsWritten ==
    \E w1, w2 \in WorkerIds :
        /\ workers[w1].pc = "done" /\ workers[w1].error = "network"
        /\ workers[w1].stage = "data_collection"
        /\ bookStatus[workers[w1].book] = "NEW"
        /\ history[workers[w1].book] =
              <<<<"NEW", "DETAIL_FETCHING", "-", 0>>,
                <<"DETAIL_FETCHING", "NEW", "network", 0>>>>
        /\ workers[w2].pc = "done" /\ workers[w2].error = "auth"
        /\ workers[w2].stage = "upload"
        /\ bookStatus[workers[w2].book] = "FAILED_PERMANENT"
        /\ history[workers[w2].book] =
              <<<<"DOWNLOAD_COMPLETE", "UPLOAD_ACTIVE", "-", 0>>,
                <<"UPLOAD_ACTIVE", "FAILED_PERMANENT", "auth", 0>>>>

\* C14: an execution whose can_process check accepted the item and whose process
\* returns success writes the active sub-status of its stage as its first write,
\* and its last write takes the item from that active sub-status to the status
\* get_next_status(True) gives, with no other status of the item in between.
SuccessIsActiveThenNext ==
    [][\A w \in WorkerIds :
          LET x == workers[w]
              b == x.book
          IN  /\ (x.pc \in {"pre", "active"} /\ workers'[w].pc # x.pc) =>
                     /\ workers'[w].pc = "process"
                     /\ bookStatus'[b] = ActiveStatus(x.stage)
              /\ (x.pc = "write" /\ x.result = "true" /\ workers'[w].pc = "done") =>
                     /\ bookStatus[b] = ActiveStatus(x.stage)
                     /\ bookStatus'[b] = x.next
                     /\ x.next \in {"DETAIL_COMPLETE", "SEARCH_COMPLETE",
                                    "SEARCH_NO_RESULTS", "SKIPPED_EXISTS",
                                    "DOWNLOAD_COMPLETE", "UPLOAD_COMPLETE"}]_vars

\* C17: every status change made during a stage execution is an edge of the
\* pipeline chain: from a stage's predecessor-complete status to its queued
\* sub-status, from queued to active, from active to an outcome of that stage,
\* from active back to queued, or from any status to FAILED_PERMANENT; no other
\* change is applied.
StatusFollowsChain ==
    [][LET queued == [data_collection |-> "NEW", search |-> "SEARCH_QUEUED",
                      download |-> "DOWNLOAD_QUEUED", upload |-> "UPLOAD_QUEUED"]
           before == [data_collection |-> {}, search |-> {"DETAIL_COMPLETE"},
                      download |-> {"SEARCH_COMPLETE"},
                      upload |-> {"DOWNLOAD_COMPLETE"}]
           active == [data_collection |-> "DETAIL_FETCHING", search |-> "SEARCH_ACTIVE",
                      download |-> "DOWNLOAD_ACTIVE", upload |-> "UPLOAD_ACTIVE"]
           ends   == [data_collection |-> {"DETAIL_COMPLETE"},
                      search |-> {"SEARCH_COMPLETE", "SEARCH_NO_RESULTS",
                                  "SKIPPED_EXISTS"},
                      download |-> {"DOWNLOAD_COMPLETE", "DOWNLOAD_FAILED"},
                      upload |-> {"UPLOAD_COMPLETE", "UPLOAD_FAILED"}]
           edges == UNION {(before[s] \X {queued[s]})
                             \cup {<<queued[s], active[s]>>}
                             \cup ({active[s]} \X ends[s])
                             \cup {<<active[s], queued[s]>>} : s \in Stages}
                      \cup (BookStatuses \X {"FAILED_PERMANENT"})
       IN  \A b \in Books :
             (bookStatus'[b] # bookStatus[b] \/ history'[b] # history[b]) =>
                 <<bookStatus[b], bookStatus'[b]>> \in edges]_vars

\* C18: the step of an execution in which the stage's process runs writes no
\* status and adds no history row: during an execution only the wrapper
\* BaseStage.execute makes status transitions.
ProcessWritesNoStatus ==
    [][\A w \in WorkerIds :
          (workers[w].pc = "process" /\ workers'[w].pc # "process") =>
              UNCHANGED <<bookStatus, history>>]_vars

\* C20: the Pipeline Manager has at most one unfinished submission per item:
\* no two executions of its pool that have not ended are for the same item.
OneSubmissionPerItem ==
    \A w1, w2 \in WorkerIds :
        (/\ w1 # w2
         /\ workers[w1].origin = "pipeline" /\ workers[w2].origin = "pipeline"
         /\ workers[w1].pc # "done" /\ workers[w2].pc # "done") =>
            workers[w1].book # workers[w2].book

(***************************************************************************)
(* The Database's status updates, one unit of work (session_scope) each,   *)
(* called from several threads, and the reset script's forced reset.       *)
(***************************************************************************)
NoBook == NumBooks + 1
DbBooks == {1, NoBook}
DbStatuses == {"SEARCH_QUEUED", "SEARCH_ACTIVE"}
DbErrors == {"-", "network"}

DbInit ==
    /\ bookStatus = [b \in Books |-> "DETAIL_COMPLETE"]
    /\ dlQueue = [b \in Books |-> "none"]
    /\ history = [b \in Books |-> <<>>]
    /\ PipeIdle /\ DbIdle
    /\ SchedOnlyInit /\ FailIdle /\ popped = <<>>

\* update_book_status_with_history is called: the session is opened and the
\* book is queried
DbCall(s, b, new, err) ==
    /\ sessions[s].pc = "idle"
    /\ b \in Books => Len(history[b]) < MaxRows
    /\ sessions' = [sessions EXCEPT ![s] =
                      IF b \in DOMAIN bookStatus
                      THEN [pc |-> "loaded", book |-> b, old |-> bookStatus[b],
                            new |-> new, err |-> err]
                      ELSE [pc |-> "missing", book |-> b, old |-> "-",
                            new |-> new, err |-> err]]
    /\ UNCHANGED <<schedVars, bookVars, pipeVars, failVars, mgrVars, lockVars, popped, stageVars>>

\* book.status = new_status and session.add(history), both in the session only
DbSet(s) ==
    /\ sessions[s].pc = "loaded"
    /\ sessions' = [sessions EXCEPT ![s].pc = "dirty"]
    /\ UNCHANGED <<schedVars, bookVars, pipeVars, failVars, mgrVars, lockVars, popped, stageVars>>

\* session_scope: session.commit()
DbCommit(s) ==
    /\ sessions[s].pc \in {"dirty", "missing"}
    /\ LET x == sessions[s]
           r == WriteStatusWithHistory(bookStatus, history, x.book, x.old, x.new, x.err,
                                       DefaultRetryCount)
       IN  IF x.pc = "dirty"
           THEN bookStatus' = r.status /\ history' = r.history
           ELSE UNCHANGED <<bookStatus, history>>
    /\ sessions' = [sessions EXCEPT ![s].pc = "done"]
    /\ UNCHANGED <<schedVars, dlQueue, pipeVars, failVars, mgrVars, lockVars, popped, stageVars>>

\* session_scope: the commit raises, session.rollback()
DbRollback(s) ==
    /\ sessions[s].pc = "dirty"
    /\ sessions' = [sessions EXCEPT ![s].pc = "failed"]
    /\ UNCHANGED <<schedVars, bookVars, pipeVars, failVars, mgrVars, lockVars, popped, stageVars>>

\* session_scope: session.close()
DbClose(s) ==
    /\ sessions[s].pc \in {"done", "failed"}
    /\ sessions' = [sessions EXCEPT ![s] = NoSession]
    /\ UNCHANGED <<schedVars, bookVars, pipeVars, failVars, mgrVars, lockVars, popped, stageVars>>

\* reset_books_to_search_queued with force: book.status is assigned directly
ForceReset(b) ==
    /\ bookStatus[b] # "SEARCH_QUEUED"
    /\ bookStatus' = [bookStatus EXCEPT ![b] = "SEARCH_QUEUED"]
    /\ UNCHANGED <<schedVars, dlQueue, history, pipeVars, failVars, dbVars, mgrVars,
                   lockVars, popped, stageVars>>

DbNext ==
    \/ \E s \in SessionIds, b \in DbBooks, new \in DbStatuses, err \in DbErrors :
          DbCall(s, b, new, err)
    \/ \E s \in SessionIds : DbSet(s)
    \/ \E s \in SessionIds : DbCommit(s)
    \/ \E s \in SessionIds : DbRollback(s)
    \/ \E s \in SessionIds : DbClose(s)
    \/ \E b \in DbBooks \cap Books : ForceReset(b)

DbSpec == DbInit /\ [][DbNext]_vars

\* C15: a call of update_book_status_with_history for a book that has a row
\* changes status and history in one step only, its commit, which sets the
\* status to the requested one and adds exactly one history row <<status the
\* call found, requested status, error>>; when the unit of work fails neither is
\* changed; a call for an id that has no row changes neither.
TransitionIsOneUnit ==
    [][\A s \in SessionIds :
          LET x == sessions[s]
              b == x.book
          IN  /\ (x.pc = "idle" /\ sessions'[s].pc = "loaded") =>
                     /\ sessions'[s].old = bookStatus[sessions'[s].book]
                     /\ UNCHANGED <<bookStatus, history>>
              /\ (x.pc = "loaded" /\ sessions'[s].pc # "loaded") =>
                     UNCHANGED <<bookStatus, history>>
              /\ (x.pc = "dirty" /\ sessions'[s].pc = "done") =>
                     /\ bookStatus' = [bookStatus EXCEPT ![b] = x.new]
                     /\ history' = [history EXCEPT
                                      ![b] = Append(@, <<x.old, x.new, x.err,
                                                         DefaultRetryCount>>)]
              /\ (x.pc = "dirty" /\ sessions'[s].pc = "failed") =>
                     UNCHANGED <<bookStatus, history>>
              /\ (sessions'[s] # x /\ "missing" \in {x.pc, sessions'[s].pc}) =>
                     UNCHANGED <<bookStatus, history>>]_vars

\* A call has committed for book 1, one has been rolled back and a call for an id
\* without a row has ended: one history row, from the status the book had.
TransitionsCommitted ==
    /\ Len(history[1]) = 1
    /\ history[1][1][1] = "DETAIL_COMPLETE"
    /\ history[1][1][2] = bookStatus[1]
    /\ \E s1, s2 \in SessionIds :
          /\ sessions[s1].pc = "failed"
          /\ sessions[s2].pc = "done" /\ sessions[s2].book = NoBook

\* C16: for every item the history replays to the status: the new_status of the
\* latest row is the current status, and the old_status of every row is the
\* new_status of the row before it.
HistoryReplaysToStatus ==
    \A b \in Books :
        /\ history[b] # <<>> => history[b][Len(history[b])][2] = bookStatus[b]
        /\ \A i \in 2..Len(history[b]) : history[b][i][1] = history[b][i - 1][2]

(***************************************************************************)
(* The scheduler over a crash of the process: main.py constructs a new     *)
(* TaskScheduler on the same database and starts it.                       *)
(***************************************************************************)
\* The process ends and is run again: TaskScheduler.__init__ and the
\* register_handler calls of main.py; the ProcessingTask rows are as they were
Restart ==
    /\ tasks' = [t \in TaskIds |-> NoTask]
    /\ task_queue' = <<>>
    /\ active_tasks' = {}
    /\ running' = FALSE
    /\ stop_event' = FALSE
    /\ loop' = NoLoop
    /\ threads' = {}
    /\ task_handlers' = Stages
    /\ total_scheduled' = 0
    /\ stopping' = FALSE
    /\ ev' = Event("restart", 0, "-")
    /\ UNCHANGED <<now, dbTask, nonSched>>

RestartNext ==
    \/ SchedNext
    \/ Restart

RestartSpec == SchedInit /\ [][RestartNext]_vars

\* C19: when the scheduler is started, every task whose durable status is queued
\* or active is in the heap of that scheduler, also when the scheduler was
\* constructed anew after a crash, so that the loop will dispatch it.
RestartReloadsTasks ==
    [][(~running /\ running') =>
          \A t \in Created :
              dbTask[t] \in {"queued", "active"} => t \in Range(task_queue')]_vars

(***************************************************************************)
(* The Pipeline Manager alone: the ticks of _main_loop and the executions  *)
(* of its pool, with room for MaxSubmit submissions.                       *)
(***************************************************************************)
PoolStages == {"download"}

PoolInit ==
    /\ bookStatus \in [Books -> {"DOWNLOAD_QUEUED", "DOWNLOAD_COMPLETE"}]
    /\ dlQueue = [b \in Books |->
                    IF bookStatus[b] = "DOWNLOAD_QUEUED" THEN "queued" ELSE "completed"]
    /\ history = [b \in Books |-> <<>>]
    /\ workers = [w \in PoolIds |-> NoWorker]
    /\ paused_stages = [s \in Stages |-> "none"]
    /\ pipe_active = [b \in Books |-> 0]
    /\ pev = NoPipeEvent
    /\ manager = NoManager
    /\ locks = NoLock
    /\ lockers = NoLockers
    /\ search_flags = NoFlags
    /\ sweep = NoSweep
    /\ DbIdle /\ SchedOnlyInit /\ FailIdle /\ popped = <<>>

PoolNext ==
    \/ \E stage \in PoolStages : ProcessStage(stage)
    \/ \E w \in PoolIds : PoolRun(w)
    \/ \E w \in PoolIds : ExecRefresh(w)
    \/ \E w \in PoolIds : ExecCheck(w)
    \/ \E w \in PoolIds : ExecActive(w)
    \/ \E w \in PoolIds : \E outcome \in ProcessOutcomes(workers[w].stage) :
          ExecProcess(w, outcome)
    \/ \E w \in PoolIds : ExecWrite(w)
    \/ CleanupCompletedTasks

PoolSpec == PoolInit /\ [][PoolNext]_vars

\* The stage executions submitted to the pool that have not finished
Unfinished == {w \in DOMAIN workers : workers[w].origin = "pipeline"
                                        /\ workers[w].pc \notin {"idle", "done"}}

\* C21: the number of stage executions submitted to the worker pool and not
\* finished never exceeds max_workers, over all stages and any sequence of ticks.
SubmittedWithinMaxWorkers == Cardinality(Unfinished) <= MaxWorkers

(***************************************************************************)
(* PipelineManager.start and stop, with the ticks of the main loop and the *)
(* executions of the pool.                                                 *)
(***************************************************************************)
\* PipelineManager.start: the flags are set and the calling thread enters
\* _main_loop; nothing is done when the manager is running already
PipeStart ==
    /\ IF manager.running
       THEN /\ manager' = manager
            /\ pev' = PipeEvent("start", "-", 0)
       ELSE /\ manager' = [manager EXCEPT !.running = TRUE, !.stop_event = FALSE]
            /\ pev' = PipeEvent("start", "-", 1)
    /\ UNCHANGED <<schedVars, bookVars, failVars, dbVars, lockVars, popped, workers,
                   paused_stages, pipe_active, stageVars>>

\* _main_loop: a stage is processed while the manager runs and is not told to
\* stop; a ThreadPoolExecutor that was shut down takes no new work
MainLoopTick(stage) ==
    /\ manager.running /\ ~manager.stop_event /\ ~manager.shutdown
    /\ ProcessStage(stage)

\* stop: the test that makes it return at once, left out
StopReturnsNever(m) == FALSE

\* stop: if not self._running: return
StopReturns(m) == ~m.running

\* future.cancel() for each future of _active_tasks: a future that no thread
\* of the pool has taken is cancelled and never runs, a running one goes on
CancelFutures(ws, pa) ==
    [w \in DOMAIN ws |->
        IF (\E b \in Books : pa[b] = w) /\ ws[w].pc = "submitted"
        THEN [ws[w] EXCEPT !.pc = "done", !.result = "cancelled"]
        ELSE ws[w]]

\* PipelineManager.stop
PipeStop ==
    /\ IF StopReturns(manager)
       THEN /\ UNCHANGED <<manager, workers, pipe_active>>
            /\ pev' = PipeEvent("stop", "-", 0)
       ELSE /\ manager' = [running |-> FALSE, stop_event |-> TRUE,
                            stage_stop |-> Stages, shutdown |-> TRUE]
            /\ workers' = CancelFutures(workers, pipe_active)
            /\ pipe_active' = [b \in Books |-> 0]
            /\ pev' = PipeEvent("stop", "-", 1)
    /\ UNCHANGED <<schedVars, bookVars, failVars, dbVars, lockVars, popped,
                   paused_stages, stageVars>>

MgrNext ==
    \/ PipeStart
    \/ PipeStop
    \/ \E stage \in PipeStages : MainLoopTick(stage)
    \/ \E w \in WorkerIds : PoolRun(w)
    \/ \E w \in WorkerIds : ExecRefresh(w)
    \/ \E w \in WorkerIds : ExecCheck(w)
    \/ \E w \in WorkerIds : ExecActive(w)
    \/ \E w \in WorkerIds : \E outcome \in ProcessOutcomes(workers[w].stage) :
          ExecProcess(w, outcome)
    \/ \E w \in WorkerIds : ExecWrite(w)
    \/ CleanupCompletedTasks /\ manager.running

MgrSpec == PipeInit /\ [][MgrNext]_vars

\* C22: stop() on a running manager marks it not running, sets the stop signal
\* of every registered stage, cancels the tracked futures that have not begun
\* and empties the active-work map; stop() on a manager that is not running (a
\* second call, or one that was never started) changes nothing.
StopIsIdempotent ==
    [][pev'.op = "stop" =>
          IF manager.running
          THEN /\ ~manager'.running /\ manager'.stop_event
               /\ manager'.stage_stop = Stages
               /\ \A b \in Books :
                     /\ pipe_active'[b] = 0
                     /\ (pipe_active[b] # 0 /\ workers[pipe_active[b]].pc = "submitted")
                           => /\ workers'[pipe_active[b]].pc = "done"
                              /\ workers'[pipe_active[b]].result = "cancelled"
          ELSE UNCHANGED <<manager, workers, pipe_active, paused_stages, bookVars>>]_vars

\* A second stop() on a manager whose first stop() cancelled a future
StoppedTwice ==
    /\ pev.op = "stop" /\ pev.n = 0
    /\ manager.shutdown /\ ~manager.running
    /\ \E w \in WorkerIds : workers[w].result = "cancelled"

\* C23: no execution holds an open session (unit of work) while it is in
\* process, where the calls to the external services are made.
NoSessionAcrossProcess ==
    \A w \in WorkerIds : workers[w].pc = "process" => workers[w].session = "closed"

(***************************************************************************)
(* TaskScheduler.stop thread by thread: the queue lock is taken, the       *)
(* queued tasks are marked cancelled one after the other, the heap is      *)
(* cleared and the lock is given back.  The other operations take the      *)
(* queue lock for their heap operation only.                               *)
(***************************************************************************)
\* stop: with self._queue_lock, after the join of the loop thread
StopLockQueue ==
    /\ stopping
    /\ loop.pc = "dead"
    /\ locks.queue = "free"
    /\ locks' = [locks EXCEPT !.queue = "stop"]
    /\ ev' = Event("stop_lock", 0, "-")
    /\ UNCHANGED <<now, tasks, dbTask, task_queue, active_tasks, running, stop_event,
                   loop, threads, task_handlers, total_scheduled, stopping, lockers,
                   bookVars, pipeVars, failVars, dbVars, mgrVars, popped, stageVars>>

\* The queued tasks stop has not marked yet, in the order of the heap list
StopPending == SelectSeq(task_queue, LAMBDA t : dbTask[t] # "cancelled")

\* stop: for task in self._task_queue: self._update_task_status(task.id, CANCELLED)
StopCancelOne ==
    /\ locks.queue = "stop"
    /\ StopPending # <<>>
    /\ dbTask' = UpdateTaskStatus(dbTask, Head(StopPending), "cancelled")
    /\ ev' = Event("stop_cancel", Head(StopPending), "-")
    /\ UNCHANGED <<now, nonSched, tasks, task_queue, active_tasks, running, stop_event,
                   loop, threads, task_handlers, total_scheduled, stopping>>

\* stop: self._task_queue.clear(), the queue lock is given back; then
\* self._active_tasks.clear() under the active lock
StopClear ==
    /\ locks.queue = "stop"
    /\ StopPending = <<>>
    /\ task_queue' = <<>>
    /\ active_tasks' = {}
    /\ locks' = [locks EXCEPT !.queue = "free"]
    /\ stopping' = FALSE
    /\ ev' = Event("stop_clear", 0, "-")
    /\ UNCHANGED <<now, tasks, dbTask, running, stop_event, loop, threads,
                   task_handlers, total_scheduled, lockers,
                   bookVars, pipeVars, failVars, dbVars, mgrVars, popped, stageVars>>

\* with self._queue_lock: the operation waits while stop holds the lock
QueueLockFree == locks.queue = "free"

LockNext ==
    \/ \E b \in SchedBooks, stage \in SchedStages, pd \in SchedInputs,
          m \in {MaxRetries} : QueueLockFree /\ ScheduleTask(b, stage, pd[1], pd[2], m)
    \/ Start
    \/ QueueLockFree /\ LoopPop
    \/ QueueLockFree /\ LoopCheck
    \/ LoopExec
    \/ LoopCleanup
    \/ LoopExit
    \/ \E t \in TaskIds : QueueLockFree /\ HandlerRun(t)
    \/ \E t \in TaskIds : HandlerFinally(t)
    \/ \E t \in TaskIds : QueueLockFree /\ CancelTask(t)
    \/ AdvanceClock
    \/ StopBegin
    \/ StopLockQueue
    \/ StopCancelOne
    \/ StopClear

LockSpec == SchedInit /\ [][LockNext]_vars

\* C24: no step that writes a task's durable status (a database round-trip) is
\* taken while the queue lock or the active-task lock is held.
NoStatusWriteUnderLock ==
    [][dbTask' # dbTask => locks.queue = "free" /\ locks.active = "free"]_vars

(***************************************************************************)
(* Search executions that share the one SearchStage instance: process      *)
(* keeps what it found in two fields of the stage, get_next_status reads   *)
(* them after process has returned.                                        *)
(***************************************************************************)
\* SearchStage.get_next_status
GetNextStatusSearch(success, flags) ==
    IF success
    THEN IF flags.calibre_exists THEN "SKIPPED_EXISTS"
         ELSE IF flags.found_qualifying_results THEN "SEARCH_COMPLETE"
         ELSE "SEARCH_NO_RESULTS"
    ELSE "SEARCH_NO_RESULTS"

SearchInit ==
    /\ bookStatus \in [Books -> {"DETAIL_COMPLETE", "SEARCH_QUEUED"}]
    /\ dlQueue = [b \in Books |-> "none"]
    /\ history = [b \in Books |-> <<>>]
    /\ PipeIdle /\ DbIdle
    /\ SchedOnlyInit /\ FailIdle /\ popped = <<>>

\* process begins: both fields are reset
SearchBegin(w) ==
    /\ workers[w].pc = "process"
    /\ workers[w].stage = "search"
    /\ search_flags' = NoFlags
    /\ workers' = [workers EXCEPT ![w].pc = "searching"]
    /\ pev' = NoPipeEvent
    /\ UNCHANGED <<schedVars, bookVars, failVars, dbVars, mgrVars, lockVars, popped,
                   paused_stages, pipe_active, sweep>>

\* process ends.  It returns True after setting _calibre_exists (the book is
\* in Calibre) or _found_qualifying_results (whether _add_best_match_to_queue
\* queued a candidate); it returns False after the reset to SEARCH_QUEUED; or
\* it raises, and execute chooses the status by the error's retryable flag
SearchReturn(w, outcome) ==
    /\ workers[w].pc = "searching"
    /\ LET x == workers[w]
           b == x.book
       IN  /\ search_flags' =
                  CASE outcome = "exists" -> [search_flags EXCEPT !.calibre_exists = TRUE]
                    [] outcome = "ok" ->
                          [search_flags EXCEPT !.found_qualifying_results = TRUE]
                    [] outcome = "noqual" ->
                          [search_flags EXCEPT !.found_qualifying_results = FALSE]
                    [] OTHER -> search_flags
           /\ IF outcome = "reset"
              THEN LET r == TransitionStatus(bookStatus, history, b, "SEARCH_QUEUED", "-")
                   IN  bookStatus' = r.status /\ history' = r.history
              ELSE UNCHANGED <<bookStatus, history>>
           /\ workers' = [workers EXCEPT
                  ![w].outcome = outcome,
                  ![w].pc = IF outcome \in {"ok", "exists", "noqual", "reset"}
                            THEN "returned" ELSE "write",
                  ![w].result = IF outcome \in {"ok", "exists", "noqual"}
                                THEN "true" ELSE "false",
                  ![w].error = IF outcome \in {"ok", "exists", "noqual", "reset"}
                               THEN "-" ELSE outcome,
                  ![w].next = CASE outcome \in {"ok", "exists", "noqual", "reset"} -> "-"
                                [] outcome = "crash" -> "FAILED_PERMANENT"
                                [] OTHER -> IF ErrorRetryable(outcome)
                                            THEN RetryStatus(x.stage)
                                            ELSE "FAILED_PERMANENT"]
    /\ pev' = NoPipeEvent
    /\ UNCHANGED <<schedVars, dlQueue, failVars, dbVars, mgrVars, lockVars, popped,
                   paused_stages, pipe_active, sweep>>

\* execute: next_status = self.get_next_status(success)
SearchNextStatus(w) ==
    /\ workers[w].pc = "returned"
    /\ workers' = [workers EXCEPT
           ![w].pc = "write",
           ![w].next = GetNextStatusSearch(workers[w].result = "true", search_flags)]
    /\ pev' = NoPipeEvent
    /\ UNCHANGED <<schedVars, bookVars, failVars, dbVars, mgrVars, lockVars, popped,
                   paused_stages, pipe_active, stageVars>>

SearchNext ==
    \/ \E b \in Books : TaskStart("search", b)
    \/ \E w \in WorkerIds : ExecRefresh(w)
    \/ \E w \in WorkerIds : ExecCheck(w)
    \/ \E w \in WorkerIds : ExecPre(w)
    \/ \E w \in WorkerIds : ExecActive(w)
    \/ \E w \in WorkerIds : SearchBegin(w)
    \/ \E w \in WorkerIds : \E outcome \in ProcessOutcomes("search") \ {"quota"} :
          SearchReturn(w, outcome)
    \/ \E w \in WorkerIds : SearchNextStatus(w)
    \/ \E w \in WorkerIds : ExecWrite(w)

SearchSpec == SearchInit /\ [][SearchNext]_vars

\* C25: the status a search execution is about to write after process returned
\* True is the one that belongs to its own outcome: SKIPPED_EXISTS when the book
\* is in Calibre, SEARCH_COMPLETE when a candidate was queued, SEARCH_NO_RESULTS
\* otherwise, whatever search executions for other items do.
SearchStatusFromOwnOutcome ==
    \A w \in WorkerIds :
        (workers[w].pc = "write" /\ workers[w].stage = "search"
            /\ workers[w].result = "true"
            /\ \A x \in WorkerIds \ {w} : workers[x].book # workers[w].book) =>
                workers[w].next = NextStatus("search", TRUE, workers[w].outcome)

(***************************************************************************)
(* The sweep for stuck items: PipelineManager.reset_stuck_tasks hands its  *)
(* timeout to the state manager's reset_stuck_statuses and returns its     *)
(* count.                                                                  *)
(***************************************************************************)
DefaultTimeout == 30
Timeouts == {1, 2}
ActiveStatuses == {ActiveStatus(stage) : stage \in Stages}
StageOfActive(status) == CHOOSE stage \in Stages : ActiveStatus(stage) = status
ResetStatuses == ActiveStatuses \cup {"DOWNLOAD_QUEUED", "SEARCH_COMPLETE"}

\* The items the sweep takes for abandoned
Stuck(bs, age, t) == {b \in Books : bs[b] \in ActiveStatuses /\ age[b] > t}

RECURSIVE RevertAll(_, _, _)
RevertAll(bs, h, S) ==
    IF S = {} THEN [status |-> bs, history |-> h]
    ELSE LET b == CHOOSE x \in S : \A y \in S : x <= y
             r == TransitionStatus(bs, h, b, RetryStatus(StageOfActive(bs[b])), "-")
         IN  RevertAll(r.status, r.history, S \ {b})

\* BookStateManager.reset_stuck_statuses: every item that has been in an active
\* sub-status for more than timeout_minutes is put back to the queued
\* sub-status of its stage; the number of items put back is returned
ResetStuckStatuses(bs, h, age, t) ==
    LET r == RevertAll(bs, h, Stuck(bs, age, t))
    IN  [status |-> r.status, history |-> r.history,
         age |-> [b \in Books |-> IF b \in Stuck(bs, age, t) THEN 0 ELSE age[b]],
         count |-> Cardinality(Stuck(bs, age, t))]

\* reset_stuck_tasks with its argument dropped: the sweep gets the default
ResetStuckTasksDefault(bs, h, age, t) == ResetStuckStatuses(bs, h, age, DefaultTimeout)

\* PipelineManager.reset_stuck_tasks
ResetStuckTasks(bs, h, age, t) == ResetStuckStatuses(bs, h, age, t)

ResetInit ==
    /\ bookStatus \in [Books -> ResetStatuses]
    /\ dlQueue = [b \in Books |-> "none"]
    /\ history = [b \in Books |-> <<>>]
    /\ PipeIdle /\ DbIdle
    /\ SchedOnlyInit /\ FailIdle /\ popped = <<>>

\* A call of reset_stuck_tasks(t)
ResetStuck(t) ==
    /\ LET r == ResetStuckTasks(bookStatus, history, sweep.age, t)
       IN  /\ bookStatus' = r.status
           /\ history' = r.history
           /\ sweep' = [age |-> r.age, timeout |-> t, count |-> r.count]
    /\ pev' = PipeEvent("reset", "-", 0)
    /\ UNCHANGED <<schedVars, dlQueue, failVars, dbVars, mgrVars, lockVars, popped,
                   workers, paused_stages, pipe_active, search_flags>>

\* An execution begins for a queued item: the active sub-status is written and
\* the row's updated_at is the time of the write
BecomeActive(b) ==
    /\ bookStatus[b] = "DOWNLOAD_QUEUED"
    /\ history[b] = <<>>
    /\ LET r == TransitionStatus(bookStatus, history, b, "DOWNLOAD_ACTIVE", "-")
       IN  bookStatus' = r.status /\ history' = r.history
    /\ sweep' = [sweep EXCEPT !.age[b] = 0]
    /\ pev' = NoPipeEvent
    /\ UNCHANGED <<schedVars, dlQueue, failVars, dbVars, mgrVars, lockVars, popped,
                   workers, paused_stages, pipe_active, search_flags>>

\* A minute passes
MinutePasses ==
    /\ \E b \in Books : sweep.age[b] < MaxAge
    /\ sweep' = [sweep EXCEPT !.age = [b \in Books |-> Min(sweep.age[b] + 1, MaxAge)]]
    /\ pev' = NoPipeEvent
    /\ UNCHANGED <<schedVars, bookVars, failVars, dbVars, mgrVars, lockVars, popped,
                   workers, paused_stages, pipe_active, search_flags>>

ResetNext ==
    \/ \E t \in Timeouts : ResetStuck(t)
    \/ \E b \in Books : BecomeActive(b)
    \/ MinutePasses

ResetSpec == ResetInit /\ [][ResetNext]_vars

RetryStage == "upload"

RetryInit ==
    /\ bookStatus = [b \in Books |-> "DOWNLOAD_COMPLETE"]
    /\ dlQueue = [b \in Books |-> "completed"]
    /\ history = [b \in Books |-> <<>>]
    /\ PipeIdle /\ DbIdle
    /\ SchedOnlyInit /\ FailIdle /\ popped = <<>>

\* A due task is taken from the heap and run to its end
RunTask(t, outcome) ==
    /\ dbTask[t] = "queued"
    /\ t \in Range(task_queue)
    /\ tasks[t].next_run_time <= now
    /\ LET task == tasks[t]
           b == task.book_id
           x == Execute(task.stage, bookStatus[b], dlQueue[b], outcome)
           r1 == IF x.invoked
                 THEN TransitionStatus(bookStatus, history, b, ActiveStatus(task.stage), "-")
                 ELSE [status |-> bookStatus, history |-> history]
           r2 == IF x.result = "raise" THEN r1
                 ELSE TransitionStatus(r1.status, r1.history, b, x.status,
                                       IF x.result = "true" THEN "-"
                                       ELSE IF x.invoked THEN outcome
                                       ELSE "status_mismatch")
           f == HandleTaskFailure(task, HandlerError(x.result), now)
           q == Heapify(tasks, SelectSeq(task_queue, LAMBDA y : y # t))
       IN  /\ bookStatus' = r2.status
           /\ history' = r2.history
           /\ dlQueue' = [dlQueue EXCEPT ![b] = x.queue]
           /\ IF x.result = "true"
              THEN /\ dbTask' = UpdateTaskStatus(dbTask, t, "completed")
                   /\ task_queue' = q
                   /\ tasks' = tasks
              ELSE /\ tasks' = [tasks EXCEPT ![t] = f.task]
                   /\ task_queue' = IF f.push THEN HeapPush(tasks', q, t) ELSE q
                   /\ dbTask' = UpdateTaskStatus(dbTask, t, f.status)
    /\ ev' = Event("run", t, OutcomeClass(outcome))
    /\ UNCHANGED <<now, active_tasks, running, stop_event, loop, threads,
                   task_handlers, total_scheduled,
                   stopping, pipeVars, failVars, dbVars, mgrVars, lockVars, stageVars,
                   popped>>

RetryNext ==
    \/ \E b \in SchedBooks, pd \in SchedInputs :
          ScheduleTask(b, RetryStage, pd[1], pd[2], MaxRetries)
    \/ \E t \in TaskIds : \E outcome \in ProcessOutcomes(RetryStage) : RunTask(t, outcome)
    \/ AdvanceClock

RetrySpec == RetryInit /\ [][RetryNext]_vars

\* C27: the history rows a run of a task writes for its item carry the retry
\* count the task has in that run: 0 in the first run, 1 in the first retry, and
\* so on, increasing from one retry to the next.
RetryRowsCarryRetryCount ==
    [][ev'.op = "run" =>
          LET t == ev'.t
              b == tasks[t].book_id
          IN  \A i \in (Len(history[b]) + 1)..Len(history'[b]) :
                  history'[b][i][4] = tasks[t].retry_count]_vars

\* C28: a pass of the scheduler loop takes from the heap exactly the tasks whose
\* next_run_time is not later than now and leaves the others queued in the heap,
\* and a handler thread is started only for a task whose next_run_time has
\* come, also for a task whose retry has moved its next_run_time forward.
OnlyDueTasksAreTaken ==
    [][/\ (loop.pc = "top" /\ loop'.pc = "check") =>
             LET due == {t \in Range(task_queue) : tasks[t].next_run_time <= now}
             IN  /\ Range(loop'.tasks_to_run) = due
                 /\ Range(task_queue') = Range(task_queue) \ due
       /\ \A t \in TaskIds :
             (<<t, "run">> \notin threads /\ <<t, "run">> \in threads') =>
                 tasks[t].next_run_time <= now]_vars

\* A pass has taken a due task and left in the heap a task that waits for its
\* retry
RetryWaitsInHeap ==
    /\ loop.pc = "check"
    /\ loop.tasks_to_run # <<>>
    /\ \E t \in Range(task_queue) :
          tasks[t].retry_count >= 1 /\ tasks[t].next_run_time > now

(***************************************************************************)
(* The search stage with the catalog service: search_books tries its       *)
(* strategies one after the other, SearchStage.process acts on what it     *)
(* returns.                                                                *)
(***************************************************************************)
\* What one strategy's request comes to
AttemptResults == {"results", "empty", "network_error"}

RECURSIVE SeqsUpTo(_, _)
SeqsUpTo(S, n) ==
    IF n = 0 THEN {<<>>}
    ELSE LET shorter == SeqsUpTo(S, n - 1)
         IN  shorter \cup {Append(q, x) : q \in shorter, x \in S}

\* The strategies that apply to a book, by what their requests come to
AttemptSeqs == SeqsUpTo(AttemptResults, MaxStrategies) \ {<<>>}

\* ZLibraryService.search_books: the first strategy that finds something gives
\* the result; a strategy that raises is logged and the next one is tried; the
\* empty list is returned when no strategy found anything
RECURSIVE SearchBooks(_)
SearchBooks(attempts) ==
    IF attempts = <<>> THEN "empty"
    ELSE IF Head(attempts) = "results" THEN "results"
    ELSE SearchBooks(Tail(attempts))

\* SearchStage.process for a book Calibre does not have and that has no stored
\* results: ResourceNotFoundError when search_books returns nothing, else True
\* with _found_qualifying_results as _add_best_match_to_queue says
SearchProcessOutcome(attempts, qualifies) ==
    IF SearchBooks(attempts) = "empty" THEN "not_found"
    ELSE IF qualifies THEN "ok" ELSE "noqual"

\* execute: process(book) of the search stage, with the catalog's answers
CatalogSearch(w, attempts, qualifies) ==
    /\ workers[w].pc = "process"
    /\ workers[w].stage = "search"
    /\ LET x == workers[w]
           outcome == SearchProcessOutcome(attempts, qualifies)
       IN  /\ dlQueue' = [dlQueue EXCEPT ![x.book] = QueueAfter(x.stage, outcome, @)]
           /\ workers' = [workers EXCEPT
                             ![w] = [Returned(x, outcome) EXCEPT !.attempts = attempts]]
    /\ pev' = NoPipeEvent
    /\ UNCHANGED <<schedVars, bookStatus, history, failVars, dbVars, mgrVars, lockVars,
                   popped, paused_stages, pipe_active, stageVars>>

CatalogNext ==
    \/ \E b \in Books : TaskStart("search", b)
    \/ \E w \in WorkerIds : ExecRefresh(w)
    \/ \E w \in WorkerIds : ExecCheck(w)
    \/ \E w \in WorkerIds : ExecPre(w)
    \/ \E w \in WorkerIds : ExecActive(w)
    \/ \E w \in WorkerIds : \E attempts \in AttemptSeqs, qualifies \in BOOLEAN :
          CatalogSearch(w, attempts, qualifies)
    \/ \E w \in WorkerIds : ExecWrite(w)

CatalogSpec == SearchInit /\ [][CatalogNext]_vars

\* C29: a search execution in which every request to the catalog failed with a
\* network error ends as a retryable failure: the status it writes is
\* SEARCH_QUEUED.
AllNetworkErrorsRetry ==
    \A w \in WorkerIds :
        (workers[w].pc \in {"write", "done"}
            /\ workers[w].attempts # <<>>
            /\ \A i \in DOMAIN workers[w].attempts :
                  workers[w].attempts[i] = "network_error") =>
                workers[w].next = RetryStatus("search")

(***************************************************************************)
(* The durable status of a task, over the scheduler's whole life.          *)
(***************************************************************************)
TerminalTaskStatuses == {"completed", "failed", "cancelled"}

\* The moves of a task's status: created as queued, queued -> active,
\* active -> completed | failed | cancelled, active -> queued on a retryable
\* failure; a queued task may also be cancelled, or fail for want of a handler
TaskMoves ==
    {<<"none", "queued">>, <<"queued", "active">>, <<"active", "completed">>,
     <<"active", "failed">>, <<"active", "cancelled">>, <<"active", "queued">>,
     <<"queued", "cancelled">>, <<"queued", "failed">>}

\* C30: a task's durable status changes only along queued -> active ->
\* completed | failed | cancelled and active -> queued, and a completed, failed
\* or cancelled task keeps its status whatever cancel_task, stop() or a handler
\* that finishes later does.
TaskStatusMachine ==
    [][\A t \in TaskIds :
          /\ dbTask'[t] # dbTask[t] => <<dbTask[t], dbTask'[t]>> \in TaskMoves
          /\ dbTask[t] \in TerminalTaskStatuses => dbTask'[t] = dbTask[t]]_vars

(***************************************************************************)
(* The transitions BaseStage.execute makes before process runs.            *)
(***************************************************************************)
\* C31: a search execution that read DETAIL_COMPLETE for its item makes two
\* transitions before process runs, each a write of its own with its own
\* history row: first to SEARCH_QUEUED, then to SEARCH_ACTIVE; a search
\* execution that read SEARCH_QUEUED makes only the transition to SEARCH_ACTIVE;
\* an execution of another stage makes no transition to its queued sub-status,
\* its first write is the one to the active sub-status.
PreTransitionOnlyForSearch ==
    [][\A w \in WorkerIds :
          LET x == workers[w]
              y == workers'[w]
              b == x.book
          IN  /\ (x.pc = "check" /\ y.pc \in {"pre", "active"}) =>
                     /\ y.pc = "pre" <=>
                            (x.stage = "search" /\ x.local = "DETAIL_COMPLETE")
                     /\ UNCHANGED <<bookStatus, history>>
              /\ (x.pc = "pre" /\ y.pc # "pre") =>
                     /\ y.pc = "active"
                     /\ bookStatus' = [bookStatus EXCEPT ![b] = "SEARCH_QUEUED"]
                     /\ history' = [history EXCEPT ![b] =
                                       Append(@, <<bookStatus[b], "SEARCH_QUEUED", "-",
                                                   DefaultRetryCount>>)]
              /\ (x.pc = "active" /\ y.pc # "active") =>
                     /\ y.pc = "process"
                     /\ bookStatus' = [bookStatus EXCEPT ![b] = ActiveStatus(x.stage)]
                     /\ history' = [history EXCEPT ![b] =
                                       Append(@, <<bookStatus[b], ActiveStatus(x.stage),
                                                   "-", DefaultRetryCount>>)]
              /\ (x.pc # "process" /\ y.pc = "process") => x.pc = "active"]_vars

\* Process is about to run in a search execution that found its item in
\* DETAIL_COMPLETE and in one that found its item in SEARCH_QUEUED, and in an
\* upload execution: two rows, one row, one row.
PreTransitionsMade ==
    \E w1, w2 \in WorkerIds :
        /\ workers[w1].pc = "process" /\ workers[w1].stage = "search"
        /\ history[workers[w1].book] =
              <<<<"DETAIL_COMPLETE", "SEARCH_QUEUED", "-", 0>>,
                <<"SEARCH_QUEUED", "SEARCH_ACTIVE", "-", 0>>>>
        /\ workers[w2].pc = "process" /\ workers[w2].stage = "upload"
        /\ history[workers[w2].book] =
              <<<<"DOWNLOAD_COMPLETE", "UPLOAD_ACTIVE", "-", 0>>>>

\* C32: when the search stage's process met a connection-reset network error,
\* the write with which execute ends leaves the item in SEARCH_QUEUED, and
\* execute returns False.
ConnectionResetRequeues ==
    [][\A w \in WorkerIds :
          (workers[w].stage = "search" /\ workers[w].outcome = "reset"
              /\ workers[w].pc = "write" /\ workers'[w].pc = "done") =>
                 /\ bookStatus'[workers[w].book] = "SEARCH_QUEUED"
                 /\ workers'[w].result = "false"]_vars

\* C33: once a download execution has ended on a retryable error (network,
\* system) and nothing else has touched the item, the item is in
\* DOWNLOAD_QUEUED and the download stage's can_process accepts it.
FailedDownloadCanBeRetried ==
    \A w \in WorkerIds :
        (/\ workers[w].stage = "download" /\ workers[w].pc = "done"
         /\ workers[w].error \in {"network", "system"}
         /\ \A x \in WorkerIds \ {w} : workers[x].book # workers[w].book) =>
            LET b == workers[w].book
            IN  /\ bookStatus[b] = "DOWNLOAD_QUEUED"
                /\ CanProcess("download", bookStatus[b], bookStatus[b],
                              dlQueue[b] = "queued")

(***************************************************************************)
(* The scheduler after stop().                                             *)
(***************************************************************************)
\* C34: the step with which stop() returns leaves the heap empty and every task
\* that was in it cancelled; from then on, until the scheduler is started
\* again, no task that exists comes into the heap and no durable status
\* becomes queued or active, whatever the handlers still in flight do.
StoppedSchedulerStaysIdle ==
    [][/\ (stopping /\ ~stopping') =>
             /\ task_queue' = <<>>
             /\ \A t \in Range(task_queue) : dbTask'[t] = "cancelled"
       /\ (stop_event /\ ~stopping /\ stop_event') =>
             \A t \in Created :
                /\ t \in Range(task_queue') => t \in Range(task_queue)
                /\ dbTask'[t] # dbTask[t] => dbTask'[t] \notin {"queued", "active"}]_vars

\* C35: when a stage that an execution of the pool paused with the quota signal
\* has been resumed and nothing else has touched the item of that execution,
\* the stage's can_process accepts the item as it is.
ResumedStageAcceptsQuotaItem ==
    \A w \in WorkerIds :
        (/\ workers[w].origin = "pipeline" /\ workers[w].result = "raise"
         /\ paused_stages[workers[w].stage] = "none"
         /\ \A x \in WorkerIds \ {w} : workers[x].book # workers[w].book) =>
            LET b == workers[w].book
            IN  /\ b \in GetBooksByStage(bookStatus, workers[w].stage)
                /\ CanProcess(workers[w].stage, bookStatus[b], bookStatus[b],
                              dlQueue[b] = "queued")

(***************************************************************************)
(* schedule_task with its admission check, called for any book id and any  *)
(* stage name on books in any status.                                      *)
(***************************************************************************)
AdmitBooks == Books \cup {NoBook}
AdmitStages == Stages \cup {"unknown"}
AdmitStatuses == {"NEW", "SEARCH_ACTIVE", "DOWNLOAD_QUEUED", "FAILED_PERMANENT"}

\* _can_schedule_for_stage without the test of the status
CanScheduleAnyStatus(bs, b, stage) == b \in DOMAIN bs /\ stage \in Stages

\* TaskScheduler._can_schedule_for_stage
CanScheduleForStage(bs, b, stage) ==
    /\ b \in DOMAIN bs
    /\ stage \in Stages
    /\ bs[b] \in SchedulableStatuses(stage)

\* What schedule_task was called with and how it ended
Call(b, stage, outcome) ==
    [op |-> "schedule_task", t |-> 0, outcome |-> outcome, book |-> b, stage |-> stage]

AdmitInit ==
    /\ SchedOnlyInit /\ PipeIdle /\ DbIdle /\ FailIdle /\ popped = <<>>
    /\ bookStatus \in [Books -> AdmitStatuses]
    /\ dlQueue = [b \in Books |-> "none"]
    /\ history = [b \in Books |-> <<>>]

\* TaskScheduler.schedule_task: the ValueError when _can_schedule_for_stage
\* says no, raised again by the except clause
ScheduleRejected(b, stage) ==
    /\ ~CanScheduleForStage(bookStatus, b, stage)
    /\ ev' = Call(b, stage, "ValueError")
    /\ UNCHANGED <<now, tasks, dbTask, task_queue, active_tasks, running, stop_event,
                   loop, threads, task_handlers, total_scheduled, stopping, nonSched>>

\* TaskScheduler.schedule_task: the record, the push and the counter when
\* _can_schedule_for_stage says yes
ScheduleAccepted(b, stage, priority, delay, max_retries) ==
    /\ CanScheduleForStage(bookStatus, b, stage)
    /\ ScheduleTask(b, stage, priority, delay, max_retries)

\* The database moves a book on
StatusChanges(b, status) ==
    /\ bookStatus[b] # status
    /\ bookStatus' = [bookStatus EXCEPT ![b] = status]
    /\ ev' = NoEvent
    /\ UNCHANGED <<now, tasks, dbTask, task_queue, active_tasks, running, stop_event,
                   loop, threads, task_handlers, total_scheduled, stopping,
                   dlQueue, history, pipeVars, failVars, dbVars, mgrVars, lockVars,
                   stageVars, popped>>

AdmitNext ==
    \/ \E b \in AdmitBooks, stage \in AdmitStages : ScheduleRejected(b, stage)
    \/ \E b \in AdmitBooks, stage \in AdmitStages, pd \in SchedInputs :
          ScheduleAccepted(b, stage, pd[1], pd[2], MaxRetries)
    \/ \E b \in Books, status \in AdmitStatuses : StatusChanges(b, status)

AdmitSpec == AdmitInit /\ [][AdmitNext]_vars

\* C36: a call of schedule_task that does not end in the error was for a book
\* that exists and whose status is one the stage can be scheduled in
\* (data_collection: NEW, DETAIL_FETCHING; search: DETAIL_COMPLETE,
\* SEARCH_QUEUED, SEARCH_ACTIVE; download: DOWNLOAD_QUEUED, DOWNLOAD_ACTIVE;
\* upload: DOWNLOAD_COMPLETE, UPLOAD_QUEUED, UPLOAD_ACTIVE; no other stage), and
\* a call that ends in the error creates no task record and leaves the heap
\* and the counter of scheduled tasks as they were.
UnschedulableIsRejected ==
    [][LET schedulable ==
               [data_collection |-> {"NEW", "DETAIL_FETCHING"},
                search |-> {"DETAIL_COMPLETE", "SEARCH_QUEUED", "SEARCH_ACTIVE"},
                download |-> {"DOWNLOAD_QUEUED", "DOWNLOAD_ACTIVE"},
                upload |-> {"DOWNLOAD_COMPLETE", "UPLOAD_QUEUED", "UPLOAD_ACTIVE"}]
           fits(b, stage) == /\ b \in Books
                             /\ stage \in DOMAIN schedulable
                             /\ bookStatus[b] \in schedulable[stage]
       IN  /\ \A t \in TaskIds :
                 (dbTask[t] = "none" /\ dbTask'[t] # "none") =>
                     fits(tasks'[t].book_id, tasks'[t].stage)
           /\ (task_queue' # task_queue \/ total_scheduled' # total_scheduled) =>
                 \E t \in TaskIds : dbTask[t] = "none" /\ dbTask'[t] # "none"
           /\ (ev'.op = "schedule_task" /\ ~fits(ev'.book, ev'.stage)) =>
                 /\ ev'.outcome = "ValueError"
                 /\ UNCHANGED <<dbTask, tasks, task_queue, total_scheduled>>]_vars

\* After one accepted call, a call for the download stage on a book in
\* SEARCH_ACTIVE has been rejected: one record, one task in the heap, counter 1.
RejectedCalls ==
    /\ ev.op = "schedule_task" /\ ev.outcome = "ValueError"
    /\ ev.book \in Books /\ ev.stage = "download"
    /\ bookStatus[ev.book] = "SEARCH_ACTIVE"
    /\ Len(task_queue) = 1 /\ total_scheduled = 1
    /\ Cardinality(Created) = 1

(***************************************************************************)
(* The heap against the durable records and the active-task map.           *)
(***************************************************************************)
\* C37: in every reachable state every task in the heap has a durable record
\* with status queued and is not in the active-task map.
HeapTasksAreQueuedOnly ==
    \A t \in Range(task_queue) : dbTask[t] = "queued" /\ t \notin active_tasks

(***************************************************************************)
(* The two locks of the Task Scheduler and the threads that take them:     *)
(* the scheduler loop, a handler thread and a caller of the public         *)
(* methods.  Every operation is the sequence of its with-blocks.           *)
(***************************************************************************)
Acq(l) == <<"acquire", l>>
Rel(l) == <<"release", l>>

\* _scheduler_loop with the no-slot branch taken the other way round: the
\* active lock inside the queue lock
LockProgramsReversed ==
    [loop |->
        [tick_slots   |-> <<Acq("queue"), Rel("queue"), Acq("active"), Rel("active")>>,
         tick_full    |-> <<Acq("queue"), Acq("active"), Rel("active"), Rel("queue")>>,
         execute_task |-> <<Acq("active"), Rel("active")>>],
     handler |->
        [run_handler_done  |-> <<Acq("active"), Rel("active")>>,
         run_handler_retry |-> <<Acq("queue"), Rel("queue"),
                                 Acq("active"), Rel("active")>>],
     caller |->
        [schedule_task     |-> <<Acq("queue"), Rel("queue")>>,
         cancel_task       |-> <<Acq("queue"), Rel("queue")>>,
         get_pending_tasks |-> <<Acq("queue"), Rel("queue")>>,
         get_status        |-> <<Acq("queue"), Rel("queue"),
                                 Acq("active"), Rel("active")>>,
         stop              |-> <<Acq("queue"), Rel("queue"),
                                 Acq("active"), Rel("active")>>]]

\* The with-blocks of every operation, in the order the code enters and
\* leaves them
LockPrograms ==
    [loop |->
        [tick_slots   |-> <<Acq("queue"), Rel("queue"), Acq("active"), Rel("active")>>,
         tick_full    |-> <<Acq("queue"), Rel("queue"),
                            Acq("active"), Acq("queue"), Rel("queue"), Rel("active")>>,
         execute_task |-> <<Acq("active"), Rel("active")>>],
     handler |->
        [run_handler_done  |-> <<Acq("active"), Rel("active")>>,
         run_handler_retry |-> <<Acq("queue"), Rel("queue"),
                                 Acq("active"), Rel("active")>>],
     caller |->
        [schedule_task     |-> <<Acq("queue"), Rel("queue")>>,
         cancel_task       |-> <<Acq("queue"), Rel("queue")>>,
         get_pending_tasks |-> <<Acq("queue"), Rel("queue")>>,
         get_status        |-> <<Acq("queue"), Rel("queue"),
                                 Acq("active"), Rel("active")>>,
         stop              |-> <<Acq("queue"), Rel("queue"),
                                 Acq("active"), Rel("active")>>]]

OrderInit == SchedInit

\* A thread enters an operation
LockBegin(u, op) ==
    /\ lockers[u].todo = <<>>
    /\ lockers' = [lockers EXCEPT ![u] = [op |-> op, todo |-> LockPrograms[u][op]]]
    /\ UNCHANGED <<schedVars, bookVars, pipeVars, failVars, dbVars, mgrVars, locks,
                   stageVars, popped>>

\* with lock: threading.Lock.acquire, which waits while any thread holds it
LockAcquire(u) ==
    /\ lockers[u].todo # <<>>
    /\ Head(lockers[u].todo)[1] = "acquire"
    /\ LET l == Head(lockers[u].todo)[2]
       IN  /\ locks[l] = "free"
           /\ locks' = [locks EXCEPT ![l] = u]
    /\ lockers' = [lockers EXCEPT ![u].todo = Tail(@)]
    /\ UNCHANGED <<schedVars, bookVars, pipeVars, failVars, dbVars, mgrVars,
                   stageVars, popped>>

\* the end of a with block
LockRelease(u) ==
    /\ lockers[u].todo # <<>>
    /\ Head(lockers[u].todo)[1] = "release"
    /\ locks' = [locks EXCEPT ![Head(lockers[u].todo)[2]] = "free"]
    /\ lockers' = [lockers EXCEPT ![u].todo = Tail(@)]
    /\ UNCHANGED <<schedVars, bookVars, pipeVars, failVars, dbVars, mgrVars,
                   stageVars, popped>>

OrderNext ==
    \/ \E u \in LockUsers : \E op \in DOMAIN LockPrograms[u] : LockBegin(u, op)
    \/ \E u \in LockUsers : LockAcquire(u)
    \/ \E u \in LockUsers : LockRelease(u)

OrderSpec == OrderInit /\ [][OrderNext]_vars

\* The threads that are waiting for a lock another thread holds
LockWaiting ==
    {u \in LockUsers : /\ lockers[u].todo # <<>>
                       /\ Head(lockers[u].todo)[1] = "acquire"
                       /\ locks[Head(lockers[u].todo)[2]] # "free"}

\* C38: a thread never takes the active-task lock while it holds the queue
\* lock (the only nesting is active-task lock first, queue lock second), and
\* the threads never all wait for each other: whenever threads are waiting for
\* a lock, a thread that holds one is not waiting.
LockOrderActiveThenQueue ==
    [][/\ \A u \in LockUsers :
             (locks.active # u /\ locks'.active = u) => locks.queue # u
       /\ \A u \in LockUsers :
             (locks.queue # u /\ locks'.queue = u) =>
                 \A l \in {"queue", "active"} : locks[l] = u => l = "active"
       /\ LockWaiting' # {} =>
             \E u \in LockUsers \ LockWaiting' : lockers'[u].todo # <<>>]_vars

\* The loop holds the active-task lock and, inside it, the queue lock, while
\* the handler thread waits for the queue lock and the caller for the
\* active-task lock.
NestedLocksHeld ==
    /\ locks.active = "loop" /\ locks.queue = "loop"
    /\ LockWaiting = {"handler", "caller"}

(***************************************************************************)
(* The status BaseStage.execute leaves behind.                             *)
(***************************************************************************)
\* C39: every execution that ends without raising the quota signal ends with a
\* write, and that write leaves the item in a status that is not the active
\* sub-status of the stage; when all the executions that touched an item have
\* ended and none of them raised the quota signal, the item is in no active
\* sub-status.
ExecuteLeavesNoActiveStatus ==
    [][LET active == [data_collection |-> "DETAIL_FETCHING",
                      search |-> "SEARCH_ACTIVE", download |-> "DOWNLOAD_ACTIVE",
                      upload |-> "UPLOAD_ACTIVE"]
           touched(b) == {w \in WorkerIds : workers'[w].book = b}
       IN  /\ \A w \in WorkerIds :
                 (workers[w].pc # "done" /\ workers'[w].pc = "done"
                     /\ workers'[w].result # "raise") =>
                        /\ workers[w].pc \in {"write", "reject"}
                        /\ bookStatus'[workers[w].book] # active[workers[w].stage]
           /\ \A b \in Books :
                 (/\ touched(b) # {}
                  /\ \A w \in touched(b) : /\ workers'[w].pc = "done"
                                            /\ workers'[w].result # "raise") =>
                     \A stage \in Stages : bookStatus'[b] # active[stage]]_vars

\* Two executions have ended on different books: one on a retryable error, its
\* book back in the queued sub-status, one on an unclassified exception in
\* process, its book in FAILED_PERMANENT.
ExecutionsEndedInactive ==
    \E w1, w2 \in WorkerIds :
        /\ workers[w1].pc = "done" /\ workers[w1].outcome = "network"
        /\ bookStatus[workers[w1].book] = RetryStatus(workers[w1].stage)
        /\ workers[w2].pc = "done" /\ workers[w2].outcome = "crash"
        /\ bookStatus[workers[w2].book] = "FAILED_PERMANENT"
        /\ workers[w1].book # workers[w2].book

(***************************************************************************)
(* Which of the due tasks a tick starts.                                   *)
(***************************************************************************)
\* C40: a tick takes every due task out of the heap, and whenever it starts a
\* task, every task it took and has not started was due no earlier than the
\* started one, and has no higher priority if it was due at the same time: the
\* free slots go to the earliest next_run_time, and priority decides between
\* equal next_run_time only.
EarliestDueStartsFirst ==
    [][/\ (loop.pc = "top" /\ loop'.pc = "check") =>
             Range(loop'.tasks_to_run) =
                 {t \in Range(task_queue) : tasks[t].next_run_time <= now}
       /\ \A t \in loop'.started \ loop.started :
             \A u \in Range(loop.tasks_to_run) \ loop'.started :
                \/ tasks[t].next_run_time < tasks[u].next_run_time
                \/ /\ tasks[t].next_run_time = tasks[u].next_run_time
                   /\ tasks[t].priority >= tasks[u].priority]_vars

\* Two tasks were due at a tick with one free slot, and the one started is the
\* one of lower priority that was due earlier.
LowPriorityStartedFirst ==
    /\ Len(loop.tasks_to_run) = 2 /\ loop.slots = 1
    /\ loop.started = {loop.tasks_to_run[1]}
    /\ <<loop.tasks_to_run[1], "run">> \in threads
    /\ tasks[loop.tasks_to_run[1]].priority < tasks[loop.tasks_to_run[2]].priority
    /\ tasks[loop.tasks_to_run[1]].next_run_time < tasks[loop.tasks_to_run[2]].next_run_time

====
